---- MODULE Spec2Model ----
(***************************************************************************)
(* Model of the insurance-onboarding backend (api/views.py, api/models.py, *)
(* api/ocr_space.py): the Emirates-ID upload handler, the single-field     *)
(* record update, the chat turn and the product recommendation helper.     *)
(*                                                                         *)
(* Python strings that the code inspects character by character (salary,   *)
(* issuing place, every record and session text field) are sequences of    *)
(* one-character strings; the Python value None of such a field is the     *)
(* one-element sequence None.  Strings the code only passes on (product    *)
(* names, prices, messages, step names) are TLA+ strings.                   *)
(***************************************************************************)
EXTENDS Integers, Sequences, FiniteSets, TLC

VARIABLES
    sessions,   \* table ChatSession: session_id -> row
    records,    \* table EmiratesIDRecord: sequence of rows, index = primary key
    pc,         \* per worker: where its request stands
    req,        \* per worker: the local variables of its request
    resp,       \* per worker: the HTTP response of its last finished request
    nReq,       \* requests started so far
    rec_in,     \* arguments of a stand-alone recommendation call
    rec_out,    \* its result
    messages,   \* table ChatMessage: sequence of rows in creation order
    users,      \* table User: the emails that have a row
    otps,       \* table OTP: sequence of rows, index = primary key
    now         \* the clock, in minutes

vars == <<sessions, records, pc, req, resp, nReq, rec_in, rec_out, messages, users, otps, now>>

(***************************************************************************)
(* Python string primitives                                                *)
(***************************************************************************)

\* Python None for a text field.
None == <<"None">>

\* Python None for the advisory message.
NoMessage == "None"

\* bool(v) for an optional string.
Truthy(v) == v # None /\ v # <<>>

\* (v or "")
OrEmpty(v) == IF v = None THEN <<>> ELSE v

UpperLetters == <<"A", "B", "C", "D", "E", "F", "G", "H", "I", "J", "K", "L", "M",
                  "N", "O", "P", "Q", "R", "S", "T", "U", "V", "W", "X", "Y", "Z">>

LowerLetters == <<"a", "b", "c", "d", "e", "f", "g", "h", "i", "j", "k", "l", "m",
                  "n", "o", "p", "q", "r", "s", "t", "u", "v", "w", "x", "y", "z">>

Digits == <<"0", "1", "2", "3", "4", "5", "6", "7", "8", "9">>

IsUpper(c) == \E i \in DOMAIN UpperLetters : UpperLetters[i] = c

IsLower(c) == \E i \in DOMAIN LowerLetters : LowerLetters[i] = c

IsLetter(c) == IsUpper(c) \/ IsLower(c)

IsDigit(c) == \E i \in DOMAIN Digits : Digits[i] = c

DigitVal(c) == (CHOOSE i \in DOMAIN Digits : Digits[i] = c) - 1

LowerChar(c) ==
    IF IsUpper(c) THEN LowerLetters[CHOOSE i \in DOMAIN UpperLetters : UpperLetters[i] = c]
    ELSE c

UpperChar(c) ==
    IF IsLower(c) THEN UpperLetters[CHOOSE i \in DOMAIN LowerLetters : LowerLetters[i] = c]
    ELSE c

\* str.lower()
Lower(s) == [i \in DOMAIN s |-> LowerChar(s[i])]

\* str.title(): a letter that follows a non-letter is upper-cased, any other
\* letter lower-cased.
Title(s) ==
    [i \in DOMAIN s |->
        IF i = 1 \/ ~IsLetter(s[i - 1]) THEN UpperChar(s[i]) ELSE LowerChar(s[i])]

\* \s of the re module, over the characters the model's texts use.
IsSpace(c) == c \in {" ", "\n", "\r", "\t"}

IsNewline(c) == c \in {"\n", "\r"}

\* A letter outside ASCII (written "Uxxxx").
IsForeignLetter(c) == Len(c) > 1

\* \w of the re module.
IsWord(c) == IsLetter(c) \/ IsDigit(c) \/ c = "_" \/ IsForeignLetter(c)

RECURSIVE LStrip(_)
LStrip(s) == IF s # <<>> /\ IsSpace(Head(s)) THEN LStrip(Tail(s)) ELSE s

RECURSIVE RStrip(_)
RStrip(s) ==
    IF s # <<>> /\ IsSpace(s[Len(s)]) THEN RStrip(SubSeq(s, 1, Len(s) - 1)) ELSE s

\* str.strip()
Strip(s) == RStrip(LStrip(s))

\* sub in s
Contains(s, sub) ==
    \E i \in 1..(Len(s) - Len(sub) + 1) : SubSeq(s, i, i + Len(sub) - 1) = sub

\* int(re.findall(r'\d+', s)[0]); -1 when s holds no digit.
RECURSIVE DigitRun(_, _)
DigitRun(s, acc) ==
    IF s # <<>> /\ IsDigit(Head(s)) THEN DigitRun(Tail(s), acc * 10 + DigitVal(Head(s)))
    ELSE acc

FirstInt(s) ==
    IF \E i \in DOMAIN s : IsDigit(s[i])
    THEN LET first == CHOOSE i \in DOMAIN s :
                          IsDigit(s[i]) /\ \A j \in 1..(i - 1) : ~IsDigit(s[j])
         IN  DigitRun(SubSeq(s, first, Len(s)), 0)
    ELSE -1

(***************************************************************************)
(* Literals of compute_products_based_on_data                              *)
(***************************************************************************)
K_abu == <<"a", "b", "u">>
K_dub == <<"d", "u", "b">>
K_adhabi == <<"a", "d", "h", "a", "b", "i">>
K_adabi == <<"a", "d", "a", "b", "i">>
K_abudhabi == <<"a", "b", "u", "d", "h", "a", "b", "i">>
K_abud == <<"a", "b", "u", "d">>
K_duba == <<"d", "u", "b", "a">>
K_dubai == <<"d", "u", "b", "a", "i">>
K_dubi == <<"d", "u", "b", "i">>
K_abu_dhabi == <<"a", "b", "u", " ", "d", "h", "a", "b", "i">>
K_below == <<"b", "e", "l", "o", "w">>
K_above == <<"a", "b", "o", "v", "e">>
K_4000 == <<"4", "0", "0", "0">>
K_5000 == <<"5", "0", "0", "0">>
K_below_4000 == <<"b", "e", "l", "o", "w", " ", "4", "0", "0", "0">>
K_below_4000_aed == <<"b", "e", "l", "o", "w", " ", "4", "0", "0", "0", " ", "a", "e", "d">>
K_4000_sp_5000 == <<"4", "0", "0", "0", " ", "-", " ", "5", "0", "0", "0">>
K_4000_dash_5000 == <<"4", "0", "0", "0", "-", "5", "0", "0", "0">>
K_4000_to_5000 == <<"4", "0", "0", "0", " ", "t", "o", " ", "5", "0", "0", "0">>
K_above_5000 == <<"a", "b", "o", "v", "e", " ", "5", "0", "0", "0">>
K_more_than_5000 == <<"m", "o", "r", "e", " ", "t", "h", "a", "n", " ", "5", "0", "0", "0">>
K_5000_plus == <<"5", "0", "0", "0", "+">>
K_5000_eq == <<"5", "0", "0", "0", " ", "=">>

PlaceDubai == <<"D", "u", "b", "a", "i">>
PlaceAbuDhabi == <<"A", "b", "u", " ", "D", "h", "a", "b", "i">>

\* The absent record (record is None in save_mobile; never in the upload).
NoRecord == [absent |-> TRUE]

(***************************************************************************)
(* compute_products_based_on_data, part 1: issuing place                   *)
(***************************************************************************)
\* The first test without its "and not dub": the variant C17 is checked
\* against.
NormalizePlace_AbuAlone(record) ==
    LET issuing_raw  == IF record # NoRecord THEN OrEmpty(record.issuing_place) ELSE <<>>
        issuing_norm == Lower(Strip(issuing_raw))
    IN  IF issuing_norm = <<>> THEN None
        ELSE IF \/ Contains(issuing_norm, K_abu)
                \/ Contains(issuing_norm, K_adhabi)
                \/ Contains(issuing_norm, K_adabi)
                \/ Contains(issuing_norm, K_abudhabi)
                \/ Contains(issuing_norm, K_abud)
             THEN PlaceAbuDhabi
        ELSE IF \/ Contains(issuing_norm, K_duba)
                \/ Contains(issuing_norm, K_dubai)
                \/ Contains(issuing_norm, K_dubi)
             THEN PlaceDubai
        ELSE IF Contains(issuing_norm, K_abu_dhabi) THEN PlaceAbuDhabi
        ELSE IF Contains(issuing_norm, K_dubai) THEN PlaceDubai
        ELSE IF issuing_raw # <<>> THEN Title(Strip(issuing_raw))
        ELSE None

NormalizePlace(record) ==
    LET issuing_raw  == IF record # NoRecord THEN OrEmpty(record.issuing_place) ELSE <<>>
        issuing_norm == Lower(Strip(issuing_raw))
    IN  IF issuing_norm = <<>> THEN None
        ELSE IF \/ (Contains(issuing_norm, K_abu) /\ ~Contains(issuing_norm, K_dub))
                \/ Contains(issuing_norm, K_adhabi)
                \/ Contains(issuing_norm, K_adabi)
                \/ Contains(issuing_norm, K_abudhabi)
                \/ Contains(issuing_norm, K_abud)
             THEN PlaceAbuDhabi
        ELSE IF \/ Contains(issuing_norm, K_duba)
                \/ Contains(issuing_norm, K_dubai)
                \/ Contains(issuing_norm, K_dubi)
             THEN PlaceDubai
        ELSE IF Contains(issuing_norm, K_abu_dhabi) THEN PlaceAbuDhabi
        ELSE IF Contains(issuing_norm, K_dubai) THEN PlaceDubai
        ELSE IF issuing_raw # <<>> THEN Title(Strip(issuing_raw))
        ELSE None

(***************************************************************************)
(* compute_products_based_on_data, part 2: salary band                     *)
(***************************************************************************)
NoBand == "None"

SalaryKeywordBand(salary_raw) ==
    IF Contains(salary_raw, K_below) /\ Contains(salary_raw, K_4000) THEN "below_4000"
    ELSE IF Contains(salary_raw, K_4000) /\ Contains(salary_raw, K_5000) THEN "4000_5000"
    ELSE IF Contains(salary_raw, K_above) /\ Contains(salary_raw, K_5000) THEN "above_5000"
    ELSE IF \/ Contains(salary_raw, K_below_4000)
            \/ Strip(salary_raw) = K_below_4000_aed
            \/ Strip(salary_raw) = K_below_4000
         THEN "below_4000"
    ELSE IF \/ Contains(salary_raw, K_4000_sp_5000)
            \/ Contains(salary_raw, K_4000_dash_5000)
            \/ Contains(salary_raw, K_4000_to_5000)
         THEN "4000_5000"
    ELSE IF \/ Contains(salary_raw, K_above_5000)
            \/ Contains(salary_raw, K_more_than_5000)
            \/ Contains(salary_raw, K_5000_plus)
            \/ Contains(salary_raw, K_5000_eq)
         THEN "above_5000"
    ELSE NoBand

\* The numeric fallback with 5000 itself in the upper band: the variant C16
\* is checked against.
SalaryNumericBand_Upto4999(salary_raw) ==
    LET n == FirstInt(salary_raw)
    IN  IF n < 0 THEN NoBand
        ELSE IF n < 4000 THEN "below_4000"
        ELSE IF n < 5000 THEN "4000_5000"
        ELSE "above_5000"

SalaryNumericBand(salary_raw) ==
    LET n == FirstInt(salary_raw)
    IN  IF n < 0 THEN NoBand
        ELSE IF n < 4000 THEN "below_4000"
        ELSE IF n <= 5000 THEN "4000_5000"
        ELSE "above_5000"

NormalizeSalary(session) ==
    LET salary_raw == Lower(OrEmpty(session.salary))
        salary_key == SalaryKeywordBand(salary_raw)
    IN  IF salary_key = NoBand /\ salary_raw # <<>> THEN SalaryNumericBand(salary_raw)
        ELSE salary_key

(***************************************************************************)
(* compute_products_based_on_data, part 3: the product table               *)
(***************************************************************************)
ProdNLSB ==
    [name |-> "DHA-Basic", price |-> "864.00", plan |-> "NLSB",
     url |-> "https://gia-insurance-provider.com/dha-basic-nlsb"]

ProdLSB ==
    [name |-> "DHA-Basic", price |-> "1893.00", plan |-> "LSB",
     url |-> "https://gia-insurance-provider.com/dha-basic-lsb"]

ProdAbuDhabi ==
    [name |-> "Abu Dhabi Eligible Plan", price |-> "1350.00 AED", plan |-> "Premium",
     url |-> "https://gia-insurance-provider.com/abu-dhabi-premium"]

ProdGeneral ==
    [name |-> "General Plan (Eligible)", price |-> "999.00 AED", plan |-> "Standard",
     url |-> "https://gia-insurance-provider.com/general-plan"]

MsgMinimum == "The minimum requirement for this product plan is above 5000 AED"

MsgConfirmSalary ==
    "Please ensure your salary is above 5000 AED to see available plans for Abu Dhabi."

MsgConfirmPlace ==
    "We couldn't determine issuing place precisely. If you'd like, please confirm the issuing place (Dubai or Abu Dhabi)."

\* Result without its message: the variant C1 is checked against.
Result_NoMessage(products, message) == [products |-> products, message |-> NoMessage]

Result(products, message) == [products |-> products, message |-> message]

\* The Dubai rows with the LSB product twice: the variant C2 is checked
\* against.
DubaiProducts_LsbTwice(salary_key) ==
    IF salary_key = "below_4000" THEN Result(<<ProdNLSB>>, NoMessage)
    ELSE IF salary_key \in {"4000_5000", "above_5000"}
         THEN Result(<<ProdLSB, ProdLSB>>, NoMessage)
    ELSE Result(<<ProdLSB>>, NoMessage)

DubaiProducts(salary_key) ==
    IF salary_key = "below_4000" THEN Result(<<ProdNLSB>>, NoMessage)
    ELSE IF salary_key \in {"4000_5000", "above_5000"}
         THEN Result(<<ProdNLSB, ProdLSB>>, NoMessage)
    ELSE Result(<<ProdLSB>>, NoMessage)

\* The Abu Dhabi rows with the plan offered from 4000 on: the variant C3 is
\* checked against.
AbuDhabiProducts_From4000(salary_key) ==
    IF salary_key = "below_4000" THEN Result(<<>>, MsgMinimum)
    ELSE IF salary_key \in {"4000_5000", "above_5000"} THEN Result(<<ProdAbuDhabi>>, NoMessage)
    ELSE Result(<<>>, MsgConfirmSalary)

AbuDhabiProducts(salary_key) ==
    IF salary_key \in {"below_4000", "4000_5000"} THEN Result(<<>>, MsgMinimum)
    ELSE IF salary_key = "above_5000" THEN Result(<<ProdAbuDhabi>>, NoMessage)
    ELSE Result(<<>>, MsgConfirmSalary)

\* The rows of the other places with the plan for every known band: the
\* variant C4 is checked against.
OtherPlaceProducts_AnyBand(salary_key) ==
    IF salary_key # NoBand THEN Result(<<ProdGeneral>>, NoMessage)
    ELSE Result(<<>>, MsgConfirmPlace)

OtherPlaceProducts(salary_key) ==
    IF salary_key = "above_5000" THEN Result(<<ProdGeneral>>, NoMessage)
    ELSE Result(<<>>, MsgConfirmPlace)

ProductTable(place, salary_key) ==
    IF place = PlaceDubai THEN DubaiProducts(salary_key)
    ELSE IF place = PlaceAbuDhabi THEN AbuDhabiProducts(salary_key)
    ELSE OtherPlaceProducts(salary_key)

compute_products_based_on_data(session, record) ==
    ProductTable(NormalizePlace(record), NormalizeSalary(session))

(***************************************************************************)
(* Keyword lists and regular-expression literals of the extractors and of  *)
(* the side classifier.  Every literal is kept in lower case where the     *)
(* code matches it case-insensitively; a non-ASCII letter is the one-token *)
(* string "Uxxxx" of its code point.                                       *)
(***************************************************************************)
back_indicators ==
    <<<<"U0627", "U0644", "U0643", "U0641", "U0627", "U0644", "U0629">>,
      <<"e", "m", "p", "l", "o", "y", "e", "r">>,
      <<"U0635", "U0627", "U062D", "U0628", " ", "U0627", "U0644", "U0639", "U0645", "U0644">>,
      <<"o", "c", "c", "u", "p", "a", "t", "i", "o", "n">>,
      <<"U0627", "U0644", "U0645", "U0647", "U0646", "U0629">>,
      <<"o", "c", "c", "u", "p", "a", "t", "i", "o", "n">>,
      <<"e", "m", "p", "l", "o", "y", "e", "r">>,
      <<"i", "s", "s", "u", "i", "n", "g", " ", "p", "l", "a", "c", "e">>,
      <<"U0645", "U0643", "U0627", "U0646", " ", "U0627", "U0644", "U0625", "U0635", "U062F", "U0627", "U0631">>,
      <<"f", "a", "m", "i", "l", "y", " ", "s", "p", "o", "n", "s", "o", "r">>,
      <<"U0643", "U0641", "U0627", "U0644", "U0629", " ", "U0639", "U0627", "U0626", "U0644", "U064A", "U0629">>>>

front_indicators ==
    <<<<"e", "m", "i", "r", "a", "t", "e", "s", " ", "i", "d">>,
      <<"i", "d", "e", "n", "t", "i", "t", "y", " ", "c", "a", "r", "d">>,
      <<"U0628", "U0637", "U0627", "U0642", "U0629", " ", "U0627", "U0644", "U0647", "U0648", "U064A", "U0629">>,
      <<"n", "a", "m", "e">>,
      <<"U0627", "U0644", "U0627", "U0633", "U0645">>,
      <<"n", "a", "t", "i", "o", "n", "a", "l", "i", "t", "y">>,
      <<"U0627", "U0644", "U062C", "U0646", "U0633", "U064A", "U0629">>,
      <<"d", "a", "t", "e", " ", "o", "f", " ", "b", "i", "r", "t", "h">>,
      <<"U062A", "U0627", "U0631", "U064A", "U062E", " ", "U0627", "U0644", "U0645", "U064A", "U0644", "U0627", "U062F">>>>

stopwords ==
    <<<<"r", "e", "s", "i", "d", "e", "n", "t">>,
      <<"i", "d", "e", "n", "t", "i", "t", "y">>,
      <<"c", "a", "r", "d">>,
      <<"i", "d", " ", "n", "u", "m", "b", "e", "r">>,
      <<"i", "d", " ", "n", "o">>,
      <<"n", "u", "m", "b", "e", "r">>,
      <<"n", "a", "t", "i", "o", "n", "a", "l", "i", "t", "y">>,
      <<"d", "a", "t", "e", " ", "o", "f", " ", "b", "i", "r", "t", "h">>,
      <<"d", "a", "t", "e">>,
      <<"e", "x", "p", "i", "r", "y">>,
      <<"i", "s", "s", "u", "i", "n", "g">>,
      <<"s", "i", "g", "n", "a", "t", "u", "r", "e">>,
      <<"s", "e", "x">>,
      <<"p", "a", "s", "s", "p", "o", "r", "t">>,
      <<"s", "i", "g", "n", "a", "t", "u", "r", "e", "/">>,
      <<"i", "s", "s", "u", "e">>>>

NameLabels ==
    <<<<"n", "a", "m", "e">>,
      <<"n", "a", "m", "e">>,
      <<"U0627", "U0644", "U0627", "U0633", "U0645">>,
      <<"U0627", "U0633", "U0645">>>>

DobLabels ==
    <<<<"d", "a", "t", "e", " ", "o", "f", " ", "b", "i", "r", "t", "h">>,
      <<"d", "o", "b">>,
      <<"b", "i", "r", "t", "h">>,
      <<"U062A", "U0627", "U0631", "U064A", "U062E", " ", "U0627", "U0644", "U0645", "U064A", "U0644", "U0627", "U062F">>>>

IssuingLabels ==
    <<<<"i", "s", "s", "u", "i", "n", "g", " ", "d", "a", "t", "e">>,
      <<"i", "s", "s", "u", "e", " ", "d", "a", "t", "e">>,
      <<"i", "s", "s", "u", "i", "n", "g">>,
      <<"d", "a", "t", "e", " ", "o", "f", " ", "i", "s", "s", "u", "e">>,
      <<"U062A", "U0627", "U0631", "U064A", "U062E", " ", "U0627", "U0644", "U0625", "U0635", "U062F", "U0627", "U0631">>>>

ExpiryLabels ==
    <<<<"e", "x", "p", "i", "r", "y", " ", "d", "a", "t", "e">>,
      <<"e", "x", "p", "i", "r", "y">>,
      <<"U062A", "U0627", "U0631", "U064A", "U062E", " ", "U0627", "U0644", "U0627", "U0646", "U062A", "U0647", "U0627", "U0621">>>>

NationalityLabels ==
    <<<<"n", "a", "t", "i", "o", "n", "a", "l", "i", "t", "y">>,
      <<"U0627", "U0644", "U062C", "U0646", "U0633", "U064A", "U0629">>>>

GenderLabels ==
    <<<<"s", "e", "x">>,
      <<"g", "e", "n", "d", "e", "r">>,
      <<"U0627", "U0644", "U062C", "U0646", "U0633">>>>

GenderValues ==
    <<<<"m", "a", "l", "e">>,
      <<"f", "e", "m", "a", "l", "e">>,
      <<"m">>,
      <<"f">>,
      <<"U0630", "U0643", "U0631">>,
      <<"U0623", "U0646", "U062B", "U0649">>>>

ScanWords ==
    <<<<"s", "c", "a", "n", "n", "e">>,
      <<"s", "c", "a", "n", "n", "e", "d">>,
      <<"s", "c", "a", "n">>,
      <<"s", "c", "a", "n", "n", "i", "n", "g">>>>

AddressLabels ==
    <<<<"a", "d", "d", "r", "e", "s", "s">>,
      <<"U0627", "U0644", "U0639", "U0646", "U0648", "U0627", "U0646">>>>

OccupationLabels ==
    <<<<"o", "c", "c", "u", "p", "a", "t", "i", "o", "n">>,
      <<"U0627", "U0644", "U0645", "U0647", "U0646", "U0629">>,
      <<"p", "r", "o", "f", "e", "s", "s", "i", "o", "n">>,
      <<"U0627", "U0644", "U0648", "U0638", "U064A", "U0641", "U0629">>>>

EmployerLabels ==
    <<<<"e", "m", "p", "l", "o", "y", "e", "r">>,
      <<"U0635", "U0627", "U062D", "U0628", " ", "U0627", "U0644", "U0639", "U0645", "U0644">>,
      <<"c", "o", "m", "p", "a", "n", "y">>,
      <<"U0627", "U0644", "U0634", "U0631", "U0643", "U0629">>,
      <<"U062C", "U0647", "U0629", " ", "U0627", "U0644", "U0639", "U0645", "U0644">>>>

IssuingPlaceLabels ==
    <<<<"i", "s", "s", "u", "i", "n", "g", " ", "p", "l", "a", "c", "e">>,
      <<"U0645", "U0643", "U0627", "U0646", " ", "U0627", "U0644", "U0625", "U0635", "U062F", "U0627", "U0631">>,
      <<"p", "l", "a", "c", "e", " ", "o", "f", " ", "i", "s", "s", "u", "e">>,
      <<"U062C", "U0647", "U0629", " ", "U0627", "U0644", "U0625", "U0635", "U062F", "U0627", "U0631">>>>

FamilySponsorLabels ==
    <<<<"f", "a", "m", "i", "l", "y", " ", "s", "p", "o", "n", "s", "o", "r">>,
      <<"U0643", "U0641", "U0627", "U0644", "U0629", " ", "U0639", "U0627", "U0626", "U0644", "U064A", "U0629">>,
      <<"s", "p", "o", "n", "s", "o", "r">>,
      <<"U0643", "U0641", "U0627", "U0644", "U0629">>,
      <<"U0627", "U0644", "U06A9", "U0641", "U0627", "U0644", "U0629">>>>

FamilySponsorValues ==
    <<<<"y", "e", "s">>,
      <<"n", "o">>,
      <<"U0646", "U0639", "U0645">>,
      <<"U0644", "U0627">>,
      <<"y">>,
      <<"n">>>>

SponsorNameLabels ==
    <<<<"f", "a", "m", "i", "l", "y", " ", "s", "p", "o", "n", "s", "o", "r", " ", "n", "a", "m", "e">>,
      <<"U0627", "U0633", "U0645", " ", "U0627", "U0644", "U0643", "U0641", "U064A", "U0644">>,
      <<"U0643", "U0641", "U064A", "U0644">>>>

K_united_arab_emirates == <<"u", "n", "i", "t", "e", "d", " ", "a", "r", "a", "b", " ", "e", "m", "i", "r", "a", "t", "e", "s">>
K_arab_emirates == <<"a", "r", "a", "b", " ", "e", "m", "i", "r", "a", "t", "e", "s">>
K_scan == <<"S", "C", "A", "N">>
K_scanned == <<"S", "C", "A", "N", "N", "E", "D">>
K_scanning == <<"S", "C", "A", "N", "N", "I", "N", "G">>
V_Male == <<"M", "a", "l", "e">>
V_Female == <<"F", "e", "m", "a", "l", "e">>
V_Yes == <<"Y", "e", "s">>
V_No == <<"N", "o">>
G_m == <<"M">>
G_male == <<"M", "A", "L", "E">>
G_ar_male == <<"U0630", "U0643", "U0631">>
G_f == <<"F">>
G_female == <<"F", "E", "M", "A", "L", "E">>
G_ar_female == <<"U0623", "U0646", "U062B", "U0649">>
Y_yes == <<"y", "e", "s">>
Y_y == <<"y">>
Y_ar == <<"U0646", "U0639", "U0645">>
N_no == <<"n", "o">>
N_n == <<"n">>
N_ar == <<"U0644", "U0627">>
month_names ==
    <<<<"J", "a", "n">>,
      <<"F", "e", "b">>,
      <<"M", "a", "r">>,
      <<"A", "p", "r">>,
      <<"M", "a", "y">>,
      <<"J", "u", "n">>,
      <<"J", "u", "l">>,
      <<"A", "u", "g">>,
      <<"S", "e", "p">>,
      <<"O", "c", "t">>,
      <<"N", "o", "v">>,
      <<"D", "e", "c">>>>

(***************************************************************************)
(* Regular-expression helpers (re.search: leftmost match, alternatives in  *)
(* order, greedy quantifiers with backtracking)                            *)
(***************************************************************************)
Min(a, b) == IF a < b THEN a ELSE b

\* The least and the greatest element of a non-empty set of numbers.
MinOf(S) == CHOOSE a \in S : \A b \in S : a <= b

MaxOf(S) == CHOOSE a \in S : \A b \in S : a >= b

\* lit occurs in s at position i.
MatchAt(s, i, lit) ==
    i >= 1 /\ i + Len(lit) - 1 <= Len(s) /\ SubSeq(s, i, i + Len(lit) - 1) = lit

\* Length of the run of \s characters of s that starts at p.
RECURSIVE WsRun(_, _)
WsRun(s, p) == IF p <= Len(s) /\ IsSpace(s[p]) THEN 1 + WsRun(s, p + 1) ELSE 0

\* Length of the run of [^\n\r] characters of s that starts at q.
RECURSIVE LineRun(_, _)
LineRun(s, q) == IF q <= Len(s) /\ ~IsNewline(s[q]) THEN 1 + LineRun(s, q + 1) ELSE 0

\* Length of the run of [^\n] characters of s that starts at q.
RECURSIVE NoLfRun(_, _)
NoLfRun(s, q) == IF q <= Len(s) /\ s[q] # "\n" THEN 1 + NoLfRun(s, q + 1) ELSE 0

\* The ways \s*[:\-]?\s* matches at p: k1 blanks, the separator or not, k2
\* blanks; q is where the rest of the pattern starts.
SepCands(s, p) ==
    UNION {
        {[k1 |-> k1, sep |-> 0, k2 |-> k2, q |-> p + k1 + k2] : k2 \in 0..WsRun(s, p + k1)}
        \cup
        (IF p + k1 <= Len(s) /\ s[p + k1] \in {":", "-"}
         THEN {[k1 |-> k1, sep |-> 1, k2 |-> k2, q |-> p + k1 + 1 + k2] :
                   k2 \in 0..WsRun(s, p + k1 + 1)}
         ELSE {})
        : k1 \in 0..WsRun(s, p)}

\* The order in which the backtracking matcher tries them (greedy first).
TriedBefore(c, d) ==
    \/ c.k1 > d.k1
    \/ c.k1 = d.k1 /\ c.sep > d.sep
    \/ c.k1 = d.k1 /\ c.sep = d.sep /\ c.k2 >= d.k2

\* Where the group starts in the candidate the matcher tries first; 0 when
\* there is no candidate.
FirstTried(C) ==
    IF C = {} THEN 0 ELSE (CHOOSE c \in C : \A d \in C : TriedBefore(c, d)).q

\* Where the group after \s*[:\-]?\s* starts when the pattern is tried at p and
\* the group can match at the positions Ok; 0 when it cannot match.
AfterSep(s, p, Ok(_)) == FirstTried({c \in SepCands(s, p) : Ok(c.q)})

\* The leftmost match <<position, alternative>>, the earliest alternative first.
Leftmost(M) ==
    CHOOSE m \in M : \A n \in M : m[1] < n[1] \/ (m[1] = n[1] /\ m[2] <= n[2])

\* Where the group starts when label m[2] is matched at m[1].
AfterLabel(s, labels, m, Ok(_)) == AfterSep(s, m[1] + Len(labels[m[2]]), Ok)

\* The <<position, alternative>> pairs at which the whole pattern matches.
LabelMatches(s, low, labels, Ok(_)) ==
    {m \in (1..Len(s)) \X DOMAIN labels :
        MatchAt(low, m[1], labels[m[2]]) /\ AfterLabel(s, labels, m, Ok) # 0}

GroupStart(s, labels, M, Ok(_)) ==
    IF M = {} THEN 0 ELSE AfterLabel(s, labels, Leftmost(M), Ok)

\* re.search(r'(?i)(?:l1|l2|...)\s*[:\-]?\s*(group)', s): the start of the
\* group in the leftmost match, 0 when there is none.
LabelSearch(s, labels, Ok(_)) ==
    GroupStart(s, labels, LabelMatches(s, Lower(s), labels, Ok), Ok)

\* The group [^\n\r]{..,hi} that starts at q; None when q is 0.
LineGroup(s, q, hi) ==
    IF q = 0 THEN None ELSE SubSeq(s, q, q + Min(LineRun(s, q), hi) - 1)

\* The group ([^\n\r]{lo,hi}) after a label; None when the pattern fails.
LabelLine(s, labels, lo, hi) ==
    LineGroup(s, LabelSearch(s, labels, LAMBDA x : LineRun(s, x) >= lo), hi)

FirstAlt(hit) == IF hit = {} THEN 0 ELSE MinOf(hit)

\* The first alternative of alts that occurs (ignoring case) at q; 0 if none.
AltAt(s, q, alts) == FirstAlt({a \in DOMAIN alts : MatchAt(Lower(s), q, alts[a])})

\* The group (a1|a2|...) that starts at q, as written in s; None when q is 0.
AltGroup(s, q, alts) ==
    IF q = 0 THEN None ELSE SubSeq(s, q, q + Len(alts[AltAt(s, q, alts)]) - 1)

\* The group (a1|a2|...) after a label, as written in s; None when the
\* pattern fails.
LabelAlt(s, labels, alts) ==
    AltGroup(s, LabelSearch(s, labels, LAMBDA x : AltAt(s, x, alts) # 0), alts)

RECURSIVE RStripChars(_, _)
RStripChars(s, cs) ==
    IF s # <<>> /\ s[Len(s)] \in cs THEN RStripChars(SubSeq(s, 1, Len(s) - 1), cs) ELSE s

\* s.split(sep) for a one-character separator.
RECURSIVE Split(_, _)
SplitAt(s, i, sep) == <<SubSeq(s, 1, i - 1)>> \o Split(SubSeq(s, i + 1, Len(s)), sep)

Split(s, sep) ==
    IF \E i \in DOMAIN s : s[i] = sep
    THEN SplitAt(s, MinOf({i \in DOMAIN s : s[i] = sep}), sep)
    ELSE <<s>>

\* s.replace('\r', '\n').splitlines()
RECURSIVE SplitLines(_)
SplitLinesAt(s, i) == <<SubSeq(s, 1, i - 1)>> \o SplitLines(SubSeq(s, i + 1, Len(s)))

SplitLines(s) ==
    IF \E i \in DOMAIN s : IsNewline(s[i])
    THEN SplitLinesAt(s, MinOf({i \in DOMAIN s : IsNewline(s[i])}))
    ELSE <<s>>

NonEmpty(l) == l # <<>>

StripAll(ls) == SelectSeq([i \in DOMAIN ls |-> Strip(ls[i])], NonEmpty)

\* [l.strip() for l in s.replace('\r', '\n').splitlines() if l.strip()]
Lines(s) == StripAll(SplitLines(s))

\* len(line.split())
WordCount(s) ==
    Cardinality({i \in DOMAIN s : ~IsSpace(s[i]) /\ (i = 1 \/ IsSpace(s[i - 1]))})

\* any(ch.isdigit() for ch in s)
HasDigit(s) == \E i \in DOMAIN s : IsDigit(s[i])

\* any(w in s for w in words)
ContainsAny(s, words) == \E i \in DOMAIN words : Contains(s, words[i])

\* separator.join(texts)
RECURSIVE Join(_, _)
Join(texts, sep) ==
    IF texts = <<>> THEN <<>>
    ELSE IF Len(texts) = 1 THEN texts[1]
    ELSE texts[1] \o sep \o Join(Tail(texts), sep)

(***************************************************************************)
(* ocr_space.detect_document_side                                          *)
(***************************************************************************)
\* sum(1 for indicator in indicators if indicator in text_lower)
Score(text_lower, indicators) ==
    Cardinality({i \in DOMAIN indicators : Contains(text_lower, indicators[i])})

SideOf(back_score, front_score) ==
    IF back_score > front_score THEN "back"
    ELSE IF front_score > back_score THEN "front"
    ELSE "unknown"

detect_document_side(text) ==
    SideOf(Score(Lower(text), back_indicators), Score(Lower(text), front_indicators))

(***************************************************************************)
(* views.parse_fields: the front-side extractor.  A dict is a record over  *)
(* all its possible keys; an absent key holds None.                        *)
(***************************************************************************)
Upper(s) == [i \in DOMAIN s |-> UpperChar(s[i])]

DigitsAt(s, q, n) ==
    q >= 1 /\ q + n - 1 <= Len(s) /\ \A j \in q..(q + n - 1) : IsDigit(s[j])

CharAt(s, q, cs) == q >= 1 /\ q <= Len(s) /\ s[q] \in cs

\* The pattern without its leading \b: the variant C20 is checked against.
IdAt_NoLeadingBoundary(s, i) ==
    /\ DigitsAt(s, i, 3) /\ CharAt(s, i + 3, {"-"})
    /\ DigitsAt(s, i + 4, 4) /\ CharAt(s, i + 8, {"-"})
    /\ DigitsAt(s, i + 9, 7) /\ CharAt(s, i + 16, {"-"})
    /\ DigitsAt(s, i + 17, 1)
    /\ (i + 18 > Len(s) \/ ~IsWord(s[i + 18]))

\* \b\d{3}-\d{4}-\d{7}-\d\b matches at i.
IdAt(s, i) ==
    /\ DigitsAt(s, i, 3) /\ CharAt(s, i + 3, {"-"})
    /\ DigitsAt(s, i + 4, 4) /\ CharAt(s, i + 8, {"-"})
    /\ DigitsAt(s, i + 9, 7) /\ CharAt(s, i + 16, {"-"})
    /\ DigitsAt(s, i + 17, 1)
    /\ (i = 1 \/ ~IsWord(s[i - 1]))
    /\ (i + 18 > Len(s) \/ ~IsWord(s[i + 18]))

FirstId(raw, hits) ==
    IF hits = {} THEN None ELSE SubSeq(raw, MinOf(hits), MinOf(hits) + 17)

ExtractEmiratesId(raw) == FirstId(raw, {i \in DOMAIN raw : IdAt(raw, i)})

\* The digit counts <<day, month>> with which the date pattern matches at q.
DateOpts(s, q) ==
    {o \in {1, 2} \X {1, 2} :
        /\ DigitsAt(s, q, o[1])
        /\ CharAt(s, q + o[1], {"/", "-"})
        /\ DigitsAt(s, q + o[1] + 1, o[2])
        /\ CharAt(s, q + o[1] + 1 + o[2], {"/", "-"})
        /\ DigitsAt(s, q + o[1] + o[2] + 2, 4)}

\* The greedy choice among them.
GreedyOpt(opts) ==
    CHOOSE o \in opts : \A p \in opts : o[1] > p[1] \/ (o[1] = p[1] /\ o[2] >= p[2])

DateLenOf(opts) ==
    IF opts = {} THEN 0 ELSE GreedyOpt(opts)[1] + GreedyOpt(opts)[2] + 6

\* Length of the match of \d{1,2}[\/\-]\d{1,2}[\/\-]\d{4} at q; 0 if none.
DateLenAt(s, q) == DateLenOf(DateOpts(s, q))

DateAt(s, q) == SubSeq(s, q, q + DateLenAt(s, q) - 1)

\* re.findall(date_pattern, raw), scanning from position pos.
RECURSIVE AllDatesFrom(_, _)
DatesFromHits(s, hits) ==
    IF hits = {} THEN <<>>
    ELSE <<DateAt(s, MinOf(hits))>>
         \o AllDatesFrom(s, MinOf(hits) + DateLenAt(s, MinOf(hits)))

AllDatesFrom(s, pos) == DatesFromHits(s, {i \in pos..Len(s) : DateLenAt(s, i) > 0})

DateOk(s, q) == DateLenAt(s, q) > 0

\* Where the date starts that follows label a; 0 when none does.
DateHit(raw, labels, a) == LabelSearch(raw, <<labels[a]>>, LAMBDA x : DateOk(raw, x))

FirstDateHit(raw, labels, hits) ==
    IF hits = {} THEN None ELSE DateAt(raw, DateHit(raw, labels, MinOf(hits)))

find_date_by_labels(raw, labels) ==
    FirstDateHit(raw, labels, {a \in DOMAIN labels : DateHit(raw, labels, a) # 0})

\* A string of digits as a number.
IntOf(s) == DigitRun(s, 0)

IsDigitString(s) == s # <<>> /\ \A i \in DOMAIN s : IsDigit(s[i])

DateParts(date_str) ==
    IF Contains(date_str, <<"/">>) THEN Split(date_str, "/")
    ELSE IF Contains(date_str, <<"-">>) THEN Split(date_str, "-")
    ELSE <<>>

MonthName(month) ==
    IF IsDigitString(month) /\ IntOf(month) \in 1..12 THEN month_names[IntOf(month)]
    ELSE month

FormatParts(date_str, parts) ==
    IF Len(parts) # 3 THEN date_str
    ELSE parts[1] \o <<"/">> \o MonthName(parts[2]) \o <<"/">> \o parts[3]

format_date(date_str) == FormatParts(date_str, DateParts(date_str))

\* The filters of the name and address fallbacks.
NoStopwordNoDigit(line) == ~ContainsAny(Lower(line), stopwords) /\ ~HasDigit(line)

NameCandidate(line) ==
    /\ NoStopwordNoDigit(line)
    /\ WordCount(line) >= 2 /\ Len(line) > 3
    /\ ~Contains(Lower(line), K_united_arab_emirates)
    /\ ~Contains(Lower(line), K_arab_emirates)

NameWithNext(lines, idx) ==
    IF /\ idx + 1 <= Len(lines)
       /\ NoStopwordNoDigit(lines[idx + 1])
       /\ WordCount(lines[idx + 1]) <= 3
    THEN lines[idx] \o <<" ">> \o lines[idx + 1]
    ELSE lines[idx]

FirstName(lines, hits) == IF hits = {} THEN None ELSE NameWithNext(lines, MinOf(hits))

FallbackName(lines) == FirstName(lines, {i \in DOMAIN lines : NameCandidate(lines[i])})

NameOf(raw, labelled) ==
    IF labelled # None
    THEN Strip(RStripChars(Strip(labelled), {":", "-", "/", "|"}))
    ELSE FallbackName(Lines(raw))

ExtractName(raw) == NameOf(raw, LabelLine(raw, NameLabels, 2, 80))

\* The group ([^\n]{1,20}) of the second gender pattern, stripped.
SecondGender(raw, q) ==
    IF q = 0 THEN <<>> ELSE Strip(SubSeq(raw, q, q + Min(NoLfRun(raw, q), 20) - 1))

GenderOf(first, second) ==
    IF first # None THEN Strip(first)
    ELSE IF second # <<>> /\ ~ContainsAny(Upper(second), <<K_scan, K_scanned, K_scanning>>)
         THEN second
    ELSE None

ExtractGenderValue(raw) ==
    GenderOf(LabelAlt(raw, GenderLabels, GenderValues),
             SecondGender(raw, LabelSearch(raw, GenderLabels, LAMBDA x : NoLfRun(raw, x) >= 1)))

NormalizeGender(gender_val) ==
    IF gender_val = None THEN None
    ELSE IF Upper(gender_val) \in {G_m, G_male, G_ar_male} THEN V_Male
    ELSE IF Upper(gender_val) \in {G_f, G_female, G_ar_female} THEN V_Female
    ELSE gender_val

\* Line i holds the nationality and a plausible address line follows it.
NationalityLineAt(lines, nationality, i) ==
    /\ Contains(Lower(lines[i]), Lower(nationality))
    /\ i + 1 <= Len(lines)
    /\ Len(lines[i + 1]) > 4 /\ ~HasDigit(lines[i + 1])

LineAfter(lines, hits) == IF hits = {} THEN None ELSE lines[MinOf(hits) + 1]

AddressAfterNationality(lines, nationality) ==
    LineAfter(lines, {i \in DOMAIN lines : NationalityLineAt(lines, nationality, i)})

AddressCandidate(line) == NoStopwordNoDigit(line) /\ WordCount(line) >= 2

LastLine(lines, hits) == IF hits = {} THEN None ELSE lines[MaxOf(hits)]

FallbackAddress(lines) == LastLine(lines, {i \in DOMAIN lines : AddressCandidate(lines[i])})

AddressFallbacks(raw, after) ==
    IF after # None THEN after ELSE FallbackAddress(Lines(raw))

AddressOf(raw, nationality, labelled) ==
    IF labelled # None THEN Strip(labelled)
    ELSE AddressFallbacks(raw, IF nationality # None
                               THEN AddressAfterNationality(Lines(raw), nationality)
                               ELSE None)

ExtractAddress(raw, nationality) ==
    AddressOf(raw, nationality, LabelLine(raw, AddressLabels, 2, 140))

\* v.strip().rstrip(':').strip() on every value of the dict.
PostProcess(v) == IF v = None THEN None ELSE Strip(RStripChars(Strip(v), {":"}))

OrNone(cond, v) == IF cond THEN v ELSE None

NationalityOf(natLine) == IF natLine = None THEN None ELSE Strip(natLine)

\* The dict parse_fields builds from what its patterns found.
FrontFields(raw, all_dates, dob, issuing, expiry, nationality, gender) ==
    [emirates_id  |-> PostProcess(ExtractEmiratesId(raw)),
     name         |-> PostProcess(ExtractName(raw)),
     dob          |-> PostProcess(OrNone(dob # None, format_date(dob))),
     issuing_date |-> PostProcess(
                          IF issuing # None THEN format_date(issuing)
                          ELSE IF Len(all_dates) >= 2 THEN format_date(all_dates[2])
                          ELSE None),
     expiry_date  |-> PostProcess(
                          IF expiry # None THEN format_date(expiry)
                          ELSE IF all_dates # <<>> THEN format_date(all_dates[Len(all_dates)])
                          ELSE None),
     nationality  |-> PostProcess(nationality),
     gender       |-> PostProcess(gender),
     sex          |-> PostProcess(gender),
     address      |-> PostProcess(ExtractAddress(raw, nationality))]

ParseFront(raw) ==
    FrontFields(raw,
                AllDatesFrom(raw, 1),
                find_date_by_labels(raw, DobLabels),
                find_date_by_labels(raw, IssuingLabels),
                find_date_by_labels(raw, ExpiryLabels),
                NationalityOf(LabelLine(raw, NationalityLabels, 2, 80)),
                NormalizeGender(ExtractGenderValue(raw)))

parse_fields(text) == ParseFront(OrEmpty(text))

(***************************************************************************)
(* views.parse_back_side_fields: the back-side extractor                   *)
(***************************************************************************)
\* The numbers of characters [\s\S]{1,maxSkip}? can skip from p so that the
\* group matches after them.
SkipsAt(s, p, maxSkip, Ok(_)) == {k \in 1..maxSkip : p + k - 1 <= Len(s) /\ Ok(p + k)}

LazyMatches(s, low, labels, maxSkip, Ok(_)) ==
    {m \in (1..Len(s)) \X DOMAIN labels :
        /\ MatchAt(low, m[1], labels[m[2]])
        /\ SkipsAt(s, m[1] + Len(labels[m[2]]), maxSkip, Ok) # {}}

\* The group start with the fewest skipped characters.
AfterSkip(s, p, maxSkip, Ok(_)) == p + MinOf(SkipsAt(s, p, maxSkip, Ok))

LazyGroupStart(s, labels, M, maxSkip, Ok(_)) ==
    IF M = {} THEN 0
    ELSE AfterSkip(s, Leftmost(M)[1] + Len(labels[Leftmost(M)[2]]), maxSkip, Ok)

\* re.search(r'(?i)(?:l1|l2|...)[\s\S]{1,maxSkip}?(group)', s): the start of
\* the group in the leftmost match (fewest skipped characters), 0 if none.
LazySearch(s, labels, maxSkip, Ok(_)) ==
    LazyGroupStart(s, labels, LazyMatches(s, Lower(s), labels, maxSkip, Ok), maxSkip, Ok)

\* ([^\n\r]{2,80})(?=\n|$) can match at q.
WholeLineAt(s, q) ==
    /\ LineRun(s, q) >= 2 /\ LineRun(s, q) <= 80
    /\ (q + LineRun(s, q) > Len(s) \/ s[q + LineRun(s, q)] = "\n")

KeepChar(c) == IsWord(c) \/ IsSpace(c) \/ c = "-"

\* re.sub(r'[^\w\s\-]', '', v.strip())
CleanBackValue(v) == SelectSeq(Strip(v), KeepChar)

WholeLine(raw, q) == IF q = 0 THEN None ELSE SubSeq(raw, q, q + LineRun(raw, q) - 1)

\* The first of the two patterns whose cleaned group has more than one
\* character.
BackValue(first, second) ==
    IF first # None /\ Len(CleanBackValue(first)) > 1 THEN CleanBackValue(first)
    ELSE IF second # None /\ Len(CleanBackValue(second)) > 1 THEN CleanBackValue(second)
    ELSE None

BackField(raw, labels) ==
    BackValue(LabelLine(raw, labels, 2, 80),
              WholeLine(raw, LazySearch(raw, labels, 100, LAMBDA x : WholeLineAt(raw, x))))

YesNo(m) ==
    IF m = None THEN None
    ELSE IF Lower(Strip(m)) \in {Y_yes, Y_y, Y_ar} THEN V_Yes
    ELSE IF Lower(Strip(m)) \in {N_no, N_n, N_ar} THEN V_No
    ELSE None

FirstOf(first, second) == IF first # None THEN first ELSE second

ExtractFamilySponsor(raw) ==
    YesNo(FirstOf(LabelAlt(raw, FamilySponsorLabels, FamilySponsorValues),
                  AltGroup(raw,
                           LazySearch(raw, FamilySponsorLabels, 50,
                                      LAMBDA x : AltAt(raw, x, FamilySponsorValues) # 0),
                           FamilySponsorValues)))

ParseBack(raw) ==
    [occupation     |-> BackField(raw, OccupationLabels),
     employer       |-> BackField(raw, EmployerLabels),
     issuing_place  |-> BackField(raw, IssuingPlaceLabels),
     family_sponsor |-> ExtractFamilySponsor(raw)]

parse_back_side_fields(text) == ParseBack(OrEmpty(text))

(***************************************************************************)
(* ocr_space: the OCR calls.  What the remote service does with one call   *)
(* is an outcome: kind "ok" (HTTP 200, no processing error) with the       *)
(* ParsedText of each page, or "network" (requests.RequestException),      *)
(* "http" (status other than 200), "errored" (IsErroredOnProcessing) or    *)
(* "exception" (any other exception).  An uploaded file carries the        *)
(* outcome of its English call and of its Arabic call.                     *)
(***************************************************************************)
OcrMinLen == 10

OcrResult(text, code) == [text |-> text, code |-> code]

FailureCode(kind) ==
    CASE kind = "network"   -> 1
      [] kind = "http"      -> 2
      [] kind = "errored"   -> 4
      [] kind = "exception" -> 6

ocr_space_file(outcome) ==
    IF outcome.kind # "ok" THEN OcrResult(<<>>, FailureCode(outcome.kind))
    ELSE IF outcome.pages = <<>> THEN OcrResult(<<>>, 5)
    ELSE OcrResult(Strip(outcome.pages[1]), 0)

\* combined_text += page_text + "\n\n" for every page with text
RECURSIVE CombinePages(_)
CombinePages(pages) ==
    IF pages = <<>> THEN <<>>
    ELSE (IF Strip(Head(pages)) # <<>> THEN Head(pages) \o <<"\n", "\n">> ELSE <<>>)
         \o CombinePages(Tail(pages))

\* The result for a PDF whose English pages combine to `combined`.
PdfResult(eng, ara, combined) ==
    IF eng.kind # "ok" THEN OcrResult(<<>>, FailureCode(eng.kind))
    ELSE IF eng.pages = <<>> THEN OcrResult(<<>>, 5)
    ELSE IF Len(combined) > OcrMinLen THEN OcrResult(combined, 0)
    ELSE IF ara.kind \in {"network", "exception"}
         THEN OcrResult(<<>>, FailureCode(ara.kind))
    ELSE IF ara.kind \in {"http", "errored"} \/ ara.pages = <<>>
         THEN OcrResult(combined, 0)
    ELSE OcrResult(Strip(CombinePages(ara.pages)), 0)

ocr_space_pdf_all_pages(file) ==
    PdfResult(file.eng, file.ara, Strip(CombinePages(file.eng.pages)))

\* The languages of the OCR calls made for an image (ocr_space_file at lines
\* 90 and 100) and for a PDF (requests.post at lines 135 and 163).
ImageCalls(eng) ==
    IF eng.code = 0 /\ Len(Strip(eng.text)) > OcrMinLen THEN <<"eng">> ELSE <<"eng", "ara">>

PdfCalls(eng, combined) ==
    IF eng.kind # "ok" \/ eng.pages = <<>> \/ Len(combined) > OcrMinLen THEN <<"eng">>
    ELSE <<"eng", "ara">>

OcrCalls(file) ==
    IF file.is_pdf THEN PdfCalls(file.eng, Strip(CombinePages(file.eng.pages)))
    ELSE ImageCalls(ocr_space_file(file.eng))

\* The result for an image with the English result kept whenever its code
\* is 0: the variant C21 is checked against.
ImageResult_EnglishIfOk(eng, ara) ==
    IF eng.code = 0 THEN eng
    ELSE IF ara.code = 0 THEN ara
    ELSE eng

\* The result for an image, from the results of its two calls.
ImageResult(eng, ara) ==
    IF eng.code = 0 /\ Len(Strip(eng.text)) > OcrMinLen THEN eng
    ELSE IF ara.code = 0 THEN ara
    ELSE eng

ocr_space_file_multi_lang(file) ==
    IF file.is_pdf THEN ocr_space_pdf_all_pages(file)
    ELSE ImageResult(ocr_space_file(file.eng), ocr_space_file(file.ara))

(***************************************************************************)
(* emirates_id_upload, the part before the first write: the OCR loop, the  *)
(* grouping by side and the two extractors                                 *)
(***************************************************************************)
Processed(failed, processed) == [failed |-> failed, processed |-> processed]

\* One more entry of processed_files.
Entry(text) == [text |-> text, side |-> detect_document_side(text)]

\* The OCR loop without its check of the code: the variant C6 is checked
\* against.
ProcessFiles_NoCodeCheck(files) ==
    Processed(FALSE, [i \in DOMAIN files |-> Entry(ocr_space_file_multi_lang(files[i]).text)])

\* processed_files: the files OCR'd until the loop ends or a file fails.
RECURSIVE ProcessFiles(_)
ProcessRest(r, rest) == Processed(rest.failed, <<Entry(r.text)>> \o rest.processed)

ProcessFrom(r, files) ==
    IF r.code # 0 THEN Processed(TRUE, <<>>) ELSE ProcessRest(r, ProcessFiles(Tail(files)))

ProcessFiles(files) ==
    IF files = <<>> THEN Processed(FALSE, <<>>)
    ELSE ProcessFrom(ocr_space_file_multi_lang(Head(files)), files)

IsFrontish(f) == f.side \in {"front", "unknown"}

IsBack(f) == f.side = "back"

TextsOf(fs) == [i \in DOMAIN fs |-> fs[i].text]

SponsorName(back_data, m) ==
    IF back_data.family_sponsor = V_Yes /\ m # None THEN Strip(m) ELSE None

ExtractSponsorName(back_data, back_combined) ==
    SponsorName(back_data, LabelLine(back_combined, SponsorNameLabels, 2, 80))

\* front_combined: the back text stands in when there is no front text.
FrontCombined(front_join, back_join) ==
    IF front_join = <<>> /\ back_join # <<>> THEN back_join ELSE front_join

\* The locals of the handler once both extractors have run.
Extracted(run, front_texts, back_texts, front_data, back_data, back_combined) ==
    [failed              |-> run.failed,
     files_processed     |-> Len(run.processed),
     has_front           |-> front_texts # <<>>,
     has_back_side       |-> back_texts # <<>>,
     front_data          |-> front_data,
     back_data           |-> back_data,
     family_sponsor_name |-> ExtractSponsorName(back_data, back_combined)]

Parsed(run, front_texts, back_texts, front_combined, back_combined) ==
    Extracted(run, front_texts, back_texts, parse_fields(front_combined),
              parse_back_side_fields(back_combined), back_combined)

\* back_combined: "elif not back_combined and front_combined" assigns it the
\* empty string.
BackCombined(front_join, back_join) ==
    IF back_join = <<>> /\ front_join # <<>> THEN <<>> ELSE back_join

Grouped(run, front_texts, back_texts) ==
    Parsed(run, front_texts, back_texts,
           FrontCombined(Join(front_texts, <<" ">>), Join(back_texts, <<" ">>)),
           BackCombined(Join(front_texts, <<" ">>), Join(back_texts, <<" ">>)))

\* The two texts the extractors are given, for the files processed.
Combined(front_join, back_join) ==
    [front_combined |-> FrontCombined(front_join, back_join),
     back_combined  |-> BackCombined(front_join, back_join)]

CombinedTexts(processed) ==
    Combined(Join(TextsOf(SelectSeq(processed, IsFrontish)), <<" ">>),
             Join(TextsOf(SelectSeq(processed, IsBack)), <<" ">>))

Classified(run) ==
    Grouped(run, TextsOf(SelectSeq(run.processed, IsFrontish)),
            TextsOf(SelectSeq(run.processed, IsBack)))

Extraction(files) == Classified(ProcessFiles(files))

(***************************************************************************)
(* Sample OCR texts, salary answers and request payloads                   *)
(***************************************************************************)
TxtFrontA == <<"N", "a", "m", "e", ":", " ", "A", "l", "i", " ", "K", "h", "a", "n", "\n", "N", "a", "t", "i", "o", "n", "a", "l", "i", "t", "y", ":", " ", "I", "n", "d", "i", "a", "\n", "I", "D", " ", "7", "8", "4", "-", "1", "9", "9", "0", "-", "1", "2", "3", "4", "5", "6", "7", "-", "1">>

TxtFrontB == <<"N", "a", "m", "e", ":", " ", "A", "l", "y", " ", "K", "h", "a", "n", "\n", "D", "O", "B", " ", "0", "1", "/", "0", "5", "/", "1", "9", "9", "0">>

TxtBackDubai == <<"O", "c", "c", "u", "p", "a", "t", "i", "o", "n", ":", " ", "C", "o", "o", "k", "\n", "I", "s", "s", "u", "i", "n", "g", " ", "P", "l", "a", "c", "e", ":", " ", "D", "u", "b", "a", "i">>

TxtBackAbuP1 == <<"E", "m", "p", "l", "o", "y", "e", "r", ":", " ", "A", "C", "M", "E", "\n", "I", "s", "s", "u", "i", "n", "g", " ", "P", "l", "a", "c", "e", ":", " ", "A", "b", "u", " ", "D", "h", "a", "b", "i">>

TxtBackAbuP2 == <<"F", "a", "m", "i", "l", "y", " ", "S", "p", "o", "n", "s", "o", "r", ":", " ", "Y", "e", "s", "\n", "F", "a", "m", "i", "l", "y", " ", "S", "p", "o", "n", "s", "o", "r", " ", "N", "a", "m", "e", ":", " ", "O", "m", "a", "r">>

TxtBackAjman == <<"I", "s", "s", "u", "i", "n", "g", " ", "P", "l", "a", "c", "e", ":", " ", "A", "j", "m", "a", "n">>

TxtBackSponsor == <<"F", "a", "m", "i", "l", "y", " ", "S", "p", "o", "n", "s", "o", "r", ":", " ", "Y", "e", "s">>

TxtShortEng == <<"N", "a", "m", "e", ":", " ", "A", "l">>

TxtShortAra == <<"U0627", "U0644", "U0627", "U0633", "U0645", ":", " ", "U0639", "U0644", "U064A", " ", "U062D", "U0633", "U0646">>

SalBelow == <<"b", "e", "l", "o", "w", " ", "4", "0", "0", "0", " ", "A", "E", "D">>

SalMid == <<"4", "0", "0", "0", " ", "-", " ", "5", "0", "0", "0", " ", "A", "E", "D">>

SalAbove == <<"a", "b", "o", "v", "e", " ", "5", "0", "0", "0", " ", "A", "E", "D">>

W_m == <<"m">>

W_male == <<"m", "a", "l", "e">>

W_ar_male == <<"U0630", "U0643", "U0631">>

W_f == <<"f">>

W_female == <<"f", "e", "m", "a", "l", "e">>

W_ar_female == <<"U0623", "U0646", "U062B", "U0649">>

W_sex == <<"s", "e", "x">>

W_gender == <<"g", "e", "n", "d", "e", "r">>

\* One uploaded file: is it a PDF, and what the OCR service answers to the
\* English and to the Arabic call.
UploadedFile(is_pdf, eng, ara) == [is_pdf |-> is_pdf, eng |-> eng, ara |-> ara]

OcrOk(pages) == [kind |-> "ok", pages |-> pages]

Fails(kind) == [kind |-> kind, pages |-> <<>>]

F_frontA == UploadedFile(FALSE, OcrOk(<<TxtFrontA>>), OcrOk(<<>>))

F_frontB == UploadedFile(FALSE, OcrOk(<<TxtFrontB>>), OcrOk(<<>>))

F_backDubai == UploadedFile(FALSE, OcrOk(<<TxtBackDubai>>), Fails("http"))

F_backAbu == UploadedFile(TRUE, OcrOk(<<TxtBackAbuP1, TxtBackAbuP2>>), OcrOk(<<>>))

F_backAjman == UploadedFile(FALSE, OcrOk(<<TxtBackAjman>>), OcrOk(<<>>))

F_short == UploadedFile(FALSE, OcrOk(<<TxtShortEng>>), OcrOk(<<TxtShortAra>>))

F_bad == UploadedFile(FALSE, Fails("network"), Fails("http"))

F_empty == UploadedFile(TRUE, OcrOk(<<>>), OcrOk(<<>>))

F_backSponsor == UploadedFile(FALSE, OcrOk(<<TxtBackSponsor>>), OcrOk(<<>>))

\* An image for which both OCR calls succeed with an empty ParsedText.
F_blank == UploadedFile(FALSE, OcrOk(<< <<>> >>), OcrOk(<< <<>> >>))

\* request.FILES.getlist("file") of the modelled upload requests.
Batches ==
    {<<F_frontA>>, <<F_frontB>>, <<F_backDubai>>, <<F_frontA, F_backDubai>>, <<F_backAbu>>,
     <<F_frontA, F_bad>>, <<F_blank>>, <<F_backSponsor>>}

\* The batches that only the client of SpecSeq sends: a blank image, and a
\* back side with a sponsor line.
SeqBatches == {<<F_blank>>, <<F_backSponsor>>}

\* The extraction of every modelled batch.
ExtractionOf == [b \in Batches |-> Extraction(b)]

(***************************************************************************)
(* models.py: the two tables                                               *)
(***************************************************************************)
Workers == {"w1", "w2"}

SessionIds == {"s1", "s2"}

MaxRequests == 2

\* ChatSession(session_id=...) with the field defaults.
ChatSession(user) ==
    [user                  |-> user,
     step                  |-> "start",
     is_completed          |-> FALSE,
     looking_for_insurance |-> "None",
     role                  |-> "None",
     salary                |-> None,
     depender_type         |-> "None",
     full_name             |-> None,
     emirates_id_number    |-> None,
     dob                   |-> None,
     expiry                |-> None,
     nationality           |-> None,
     occupation            |-> None,
     emirates_id_uploaded  |-> FALSE]

\* The row the chat flow leaves behind once the salary question is answered
\* (steps q1, q2, q3 of fallback_to_fsm).
AwaitingId(salary) ==
    [ChatSession("u1") EXCEPT !.step = "awaiting_id_frontside",
                              !.looking_for_insurance = "Yes",
                              !.role = "Employee",
                              !.salary = salary]

\* EmiratesIDRecord.objects.create(chat_session=..., **defaults)
EmiratesIDRecord(id, chat_session, defaults) ==
    [id                  |-> id,
     chat_session        |-> chat_session,
     emirates_id         |-> defaults.emirates_id,
     name                |-> defaults.name,
     dob                 |-> defaults.dob,
     issuing_date        |-> defaults.issuing_date,
     nationality         |-> defaults.nationality,
     gender              |-> defaults.gender,
     address             |-> defaults.address,
     occupation          |-> defaults.occupation,
     employer            |-> defaults.employer,
     issuing_place       |-> defaults.issuing_place,
     family_sponsor      |-> defaults.family_sponsor,
     family_sponsor_name |-> defaults.family_sponsor_name,
     expiry_date         |-> defaults.expiry_date]

\* The text columns of EmiratesIDRecord.
RecordFields ==
    {"emirates_id", "name", "dob", "issuing_date", "nationality", "gender", "address",
     "occupation", "employer", "issuing_place", "family_sponsor", "family_sponsor_name",
     "expiry_date"}

\* EmiratesIDRecord.objects.filter(chat_session=session)
RecordsOf(sid) == {i \in DOMAIN records : records[i].chat_session = sid}

\* ChatMessage.objects.create(session=..., role=..., content=...)
ChatMessage(session, role, content) == [session |-> session, role |-> role, content |-> content]

\* The reply of the salary question's turn (step q3 of fallback_to_fsm).
ReplyUpload == <<"Please upload the insured person's valid Emirates ID.">>

\* The rows the turn that stored the salary has created for a session.
Transcript(sid, session) ==
    IF session.step = "awaiting_id_frontside"
    THEN <<ChatMessage(sid, "user", session.salary), ChatMessage(sid, "bot", ReplyUpload)>>
    ELSE <<>>

NoRequest == [op |-> "none"]

NoResponse == [status |-> 0]

NoCall == [called |-> FALSE]

NoResult == [returned |-> FALSE]

UploadRequest(session_id, files) == [op |-> "upload", session_id |-> session_id, files |-> files]

UpdateRequest(id, field, value) == [op |-> "update", id |-> id, field |-> field, value |-> value]

\* The POSTs to /emirates-id/upload the model sends; "" is a request
\* without session_id, "s9" a session id no row has.
UploadRequests ==
    {UploadRequest("s1", b) : b \in Batches \ SeqBatches} \cup
    {UploadRequest("s1", <<>>), UploadRequest("s2", <<F_frontA, F_backDubai>>),
     UploadRequest("", <<F_frontA>>), UploadRequest("s9", <<F_frontA>>)}

\* The POSTs to /emirates-id/update the model sends; id 0 is a payload
\* without id, None a payload without that key.
UpdateRequests ==
    {UpdateRequest(1, <<"n", "a", "m", "e">>, None),
     UpdateRequest(1, <<" ", "N", "a", "t", "i", "o", "n", "a", "l", "i", "t", "y">>, <<"O", "m", "a", "n", " ">>),
     UpdateRequest(1, <<"s", "e", "x">>, <<" ">>),
     UpdateRequest(1, <<"s", "t", "a", "t", "u", "s">>, <<"x">>),
     UpdateRequest(0, None, <<"x">>),
     UpdateRequest(7, <<"n", "a", "m", "e">>, <<"x">>)}

(***************************************************************************)
(* Initial states: the tables as the chat flow leaves them before the      *)
(* first upload, no request in flight                                      *)
(***************************************************************************)
\* No user has asked for a one-time password yet.
NoAccounts ==
    /\ users = {}
    /\ otps = <<>>
    /\ now = 0

Idle ==
    /\ pc = [w \in Workers |-> "idle"]
    /\ req = [w \in Workers |-> NoRequest]
    /\ resp = [w \in Workers |-> NoResponse]
    /\ nReq = 0

Init ==
    /\ \E s1 \in {ChatSession("None"), AwaitingId(SalBelow), AwaitingId(SalMid),
                  AwaitingId(SalAbove)} :
           /\ sessions = [sid \in SessionIds |-> IF sid = "s1" THEN s1 ELSE AwaitingId(SalMid)]
           /\ messages = Transcript("s1", s1) \o Transcript("s2", AwaitingId(SalMid))
    /\ records = <<>>
    /\ Idle
    /\ rec_in = NoCall
    /\ rec_out = NoResult
    /\ NoAccounts

(***************************************************************************)
(* Requests.  A worker takes one request at a time; every database         *)
(* statement of a handler is one step (Django's default autocommit), so    *)
(* the statements of two workers interleave.                               *)
(***************************************************************************)
Respond(w, response) ==
    /\ resp' = [resp EXCEPT ![w] = response]
    /\ req' = [req EXCEPT ![w] = NoRequest]
    /\ pc' = [pc EXCEPT ![w] = "idle"]

ErrorResponse(status, error) == [status |-> status, error |-> error]

\* A request reaches a free worker.
Receive(w, r) ==
    /\ pc[w] = "idle"
    /\ nReq < MaxRequests
    /\ nReq' = nReq + 1
    /\ req' = [req EXCEPT ![w] = r]
    /\ pc' = [pc EXCEPT ![w] = r.op]
    /\ UNCHANGED <<sessions, records, resp, rec_in, rec_out, messages, users, otps, now>>

(***************************************************************************)
(* emirates_id_upload                                                      *)
(***************************************************************************)
\* The defaults of get_or_create.
Defaults(x) ==
    [emirates_id         |-> x.front_data.emirates_id,
     name                |-> x.front_data.name,
     dob                 |-> x.front_data.dob,
     nationality         |-> x.front_data.nationality,
     gender              |-> x.front_data.gender,
     address             |-> x.front_data.address,
     issuing_date        |-> x.front_data.issuing_date,
     expiry_date         |-> x.front_data.expiry_date,
     occupation          |-> x.back_data.occupation,
     employer            |-> x.back_data.employer,
     issuing_place       |-> x.back_data.issuing_place,
     family_sponsor      |-> x.back_data.family_sponsor,
     family_sponsor_name |-> x.family_sponsor_name]

\* {**front_data, **back_data}; a key a dict does not hold maps to None.
Merged(x) ==
    [f \in DOMAIN x.front_data \cup DOMAIN x.back_data |->
        IF f \in DOMAIN x.back_data THEN x.back_data[f] ELSE x.front_data[f]]

\* Validation, session lookup, the OCR loop and the extractors: everything
\* before the first database write.
emirates_id_upload(w) ==
    /\ pc[w] = "upload"
    /\ LET session_id == req[w].session_id
           files      == req[w].files
       IN  IF session_id = ""
           THEN Respond(w, ErrorResponse(400, "session_id required"))
           ELSE IF session_id \notin DOMAIN sessions
           THEN Respond(w, ErrorResponse(404, "Chat session not found"))
           ELSE IF files = <<>>
           THEN Respond(w, ErrorResponse(400, "No files received"))
           ELSE IF ExtractionOf[files].failed
           THEN Respond(w, ErrorResponse(500, "OCR.space failed"))
           ELSE /\ req' = [req EXCEPT ![w] =
                              [op         |-> "upload",
                               session_id |-> session_id,
                               files      |-> files,
                               session    |-> sessions[session_id],
                               x          |-> ExtractionOf[files]]]
                /\ pc' = [pc EXCEPT ![w] = "get"]
                /\ UNCHANGED resp
    /\ UNCHANGED <<sessions, records, nReq, rec_in, rec_out, messages, users, otps, now>>

\* get_or_create has found the record of the session.
Found(w, created) ==
    LET id == CHOOSE i \in RecordsOf(req[w].session_id) : TRUE
    IN  /\ req' = [req EXCEPT ![w] =
                      [op         |-> "upload",
                       session_id |-> req[w].session_id,
                       files      |-> req[w].files,
                       session    |-> req[w].session,
                       x          |-> req[w].x,
                       record     |-> records[id]]]
        /\ pc' = [pc EXCEPT ![w] = IF created THEN "sync" ELSE "merge"]

\* get_or_create, the SELECT.
get_or_create_get(w) ==
    /\ pc[w] = "get"
    /\ IF RecordsOf(req[w].session_id) # {}
       THEN Found(w, FALSE)
       ELSE /\ pc' = [pc EXCEPT ![w] = "create"]
            /\ UNCHANGED req
    /\ UNCHANGED <<sessions, records, resp, nReq, rec_in, rec_out, messages, users, otps, now>>

\* chat_session without the unique constraint: the variant C9 is checked
\* against.
UniqueViolation_Never(sid) == FALSE

\* chat_session is a OneToOneField: the column is unique.
UniqueViolation(sid) == RecordsOf(sid) # {}

\* get_or_create, the INSERT; on IntegrityError the SELECT again.
get_or_create_create(w) ==
    /\ pc[w] = "create"
    /\ IF UniqueViolation(req[w].session_id)
       THEN Found(w, FALSE) /\ UNCHANGED records
       ELSE /\ records' = Append(records,
                              EmiratesIDRecord(Len(records) + 1, req[w].session_id,
                                               Defaults(req[w].x)))
            /\ req' = [req EXCEPT ![w] =
                          [op         |-> "upload",
                           session_id |-> req[w].session_id,
                           files      |-> req[w].files,
                           session    |-> req[w].session,
                           x          |-> req[w].x,
                           record     |-> records'[Len(records')]]]
            /\ pc' = [pc EXCEPT ![w] = "sync"]
    /\ UNCHANGED <<sessions, resp, nReq, rec_in, rec_out, messages, users, otps, now>>

\* update_fields with only the fields the record does not hold yet: the
\* variant C7 is checked against.
UploadUpdateFields_OnlyEmpty(record, x) ==
    {f \in DOMAIN Merged(x) \cap DOMAIN record : Truthy(Merged(x)[f]) /\ ~Truthy(record[f])}
    \cup (IF Truthy(x.family_sponsor_name) THEN {"family_sponsor_name"} ELSE {})

\* update_fields with every key of the extraction, empty values included:
\* the variant C8 is checked against.
UploadUpdateFields_AllKeys(record, x) ==
    (DOMAIN Merged(x) \cap DOMAIN record)
    \cup (IF Truthy(x.family_sponsor_name) THEN {"family_sponsor_name"} ELSE {})

\* update_fields of the branch "if not created".
UploadUpdateFields(record, x) ==
    {f \in DOMAIN Merged(x) \cap DOMAIN record : Truthy(Merged(x)[f])}
    \cup (IF Truthy(x.family_sponsor_name) THEN {"family_sponsor_name"} ELSE {})

\* The setattr calls of the branch "if not created".
UploadSetattr(record, x) ==
    [f \in DOMAIN record |->
        IF f = "family_sponsor_name" /\ Truthy(x.family_sponsor_name)
        THEN x.family_sponsor_name
        ELSE IF f \in UploadUpdateFields(record, x) THEN Merged(x)[f]
        ELSE record[f]]

\* A save that leaves out the id number when the instance holds none: the
\* variant C25 is checked against.
SaveFields_NonEmpty(row, instance, update_fields) ==
    [f \in DOMAIN row |->
        IF f \in update_fields /\ (f = "emirates_id_number" => Truthy(instance[f]))
        THEN instance[f]
        ELSE row[f]]

\* Model.save(update_fields=...): only the listed columns are written;
\* Model.save() lists every column.
SaveFields(row, instance, update_fields) ==
    [f \in DOMAIN row |-> IF f \in update_fields THEN instance[f] ELSE row[f]]

\* The branch "if not created": merge into the existing record.
UploadMerge(w) ==
    /\ pc[w] = "merge"
    /\ LET record == UploadSetattr(req[w].record, req[w].x)
           fields == UploadUpdateFields(req[w].record, req[w].x)
       IN  /\ records' = [records EXCEPT ![record.id] = SaveFields(records[record.id], record, fields)]
           /\ req' = [req EXCEPT ![w].record = record]
    /\ pc' = [pc EXCEPT ![w] = "sync"]
    /\ UNCHANGED <<sessions, resp, nReq, rec_in, rec_out, messages, users, otps, now>>

\* record field -> session field of the sync.
SyncPairs ==
    {[rec |-> "name",        ses |-> "full_name"],
     [rec |-> "emirates_id", ses |-> "emirates_id_number"],
     [rec |-> "dob",         ses |-> "dob"],
     [rec |-> "expiry_date", ses |-> "expiry"],
     [rec |-> "nationality", ses |-> "nationality"],
     [rec |-> "occupation",  ses |-> "occupation"]}

\* The sync without the test of the session field: the variant C10 is
\* checked against.
Synced_Always(session, record) == {p \in SyncPairs : Truthy(record[p.rec])}

\* The pairs the sync copies.
Synced(session, record) ==
    {p \in SyncPairs : Truthy(record[p.rec]) /\ ~Truthy(session[p.ses])}

\* The session instance after the sync.
SyncSession(session, record) ==
    [f \in DOMAIN session |->
        IF \E p \in Synced(session, record) : p.ses = f
        THEN record[(CHOOSE p \in Synced(session, record) : p.ses = f).rec]
        ELSE IF f = "emirates_id_uploaded" THEN TRUE
        ELSE session[f]]

\* Sync of the extracted fields into the ChatSession.
UploadSync(w) ==
    /\ pc[w] = "sync"
    /\ LET sid     == req[w].session_id
           session == SyncSession(req[w].session, req[w].record)
           fields  == {p.ses : p \in Synced(req[w].session, req[w].record)}
                      \cup {"emirates_id_uploaded"}
       IN  /\ sessions' = [sessions EXCEPT ![sid] = SaveFields(sessions[sid], session, fields)]
           /\ req' = [req EXCEPT ![w].session = session]
    /\ pc' = [pc EXCEPT ![w] = "recommend"]
    /\ UNCHANGED <<records, resp, nReq, rec_in, rec_out, messages, users, otps, now>>

expected_fields ==
    <<"emirates_id", "name", "dob", "nationality", "gender", "address", "issuing_date",
      "expiry_date", "occupation", "employer", "issuing_place">>

\* missing without the family_sponsor_name test: the variant C11 is checked
\* against.
MissingFields_WithoutSponsorName(record) ==
    LET Empty(f) == ~Truthy(record[f])
    IN  SelectSeq(expected_fields, Empty)

MissingFields(record) ==
    LET Empty(f) == ~Truthy(record[f])
    IN  SelectSeq(expected_fields, Empty)
        \o (IF record.family_sponsor = V_Yes /\ ~Truthy(record.family_sponsor_name)
            THEN <<"family_sponsor_name">> ELSE <<>>)

\* The product dicts of the table written out in the handler: no url yet.
Inline(name, price, plan) == [name |-> name, price |-> price, plan |-> plan]

\* The table written out in the handler, which replaces the helper's result.
InlineTable(place, salary_key) ==
    IF place = PlaceDubai
    THEN IF salary_key = "below_4000"
         THEN Result(<<Inline("DHA-Basic", "864.00", "NLSB")>>, NoMessage)
         ELSE IF salary_key \in {"4000_5000", "above_5000"}
         THEN Result(<<Inline("DHA-Basic", "1893.00", "LSB"),
                       Inline("DHA-Basic", "1893.00", "LSB")>>, NoMessage)
         ELSE Result(<<Inline("DHA-Basic", "1893.00", "LSB")>>, NoMessage)
    ELSE IF place = PlaceAbuDhabi
    THEN IF salary_key \in {"below_4000", "4000_5000"} THEN Result(<<>>, MsgMinimum)
         ELSE IF salary_key = "above_5000"
         THEN Result(<<Inline("Abu Dhabi Eligible Plan", "1350.00 AED", "Premium")>>, NoMessage)
         ELSE Result(<<>>, MsgConfirmSalary)
    ELSE IF salary_key = "above_5000"
         THEN Result(<<Inline("General Plan (Eligible)", "999.00 AED", "Standard")>>, NoMessage)
         ELSE Result(<<>>, MsgConfirmPlace)

\* The loop that gives every product its url.
ProductUrl(p) ==
    IF p.name = "DHA-Basic"
    THEN IF p.plan = "NLSB" THEN "https://gia-insurance-provider.com/dha-basic-nlsb"
         ELSE IF p.plan = "LSB" THEN "https://gia-insurance-provider.com/dha-basic-lsb"
         ELSE "https://gia-insurance-provider.com/dha-basic"
    ELSE IF p.name = "Abu Dhabi Eligible Plan"
    THEN "https://gia-insurance-provider.com/abu-dhabi-premium"
    ELSE "https://gia-insurance-provider.com/general-plan"

WithUrls(products) ==
    [i \in DOMAIN products |->
        [name |-> products[i].name, price |-> products[i].price, plan |-> products[i].plan,
         url |-> ProductUrl(products[i])]]

\* Missing fields, the step change with its full save, the helper call and
\* the table that overwrites the helper's products and message.
UploadRecommend(w) ==
    /\ pc[w] = "recommend"
    /\ LET sid      == req[w].session_id
           record   == req[w].record
           finished == /\ req[w].x.has_back_side
                       /\ req[w].session.step \in {"awaiting_id_frontside", "awaiting_id_backside"}
           session  == IF finished THEN [req[w].session EXCEPT !.step = "complete"]
                       ELSE req[w].session
           helper   == compute_products_based_on_data(session, record)
           inline   == InlineTable(NormalizePlace(record), NormalizeSalary(session))
       IN  /\ sessions' = IF finished
                          THEN [sessions EXCEPT ![sid] = SaveFields(@, session, DOMAIN session)]
                          ELSE sessions
           /\ req' = [req EXCEPT ![w] =
                         [op         |-> "upload",
                          session_id |-> sid,
                          files      |-> req[w].files,
                          session    |-> session,
                          x          |-> req[w].x,
                          record     |-> record,
                          missing    |-> MissingFields(record),
                          place      |-> NormalizePlace(record),
                          products   |-> inline.products,
                          message    |-> inline.message]]
    /\ pc' = [pc EXCEPT ![w] = "respond"]
    /\ UNCHANGED <<records, resp, nReq, rec_in, rec_out, messages, users, otps, now>>

\* The success payload.
UploadPayload(r) ==
    [status                 |-> 200,
     ok                     |-> TRUE,
     id                     |-> r.record.id,
     fields                 |-> Merged(r.x),
     missing_fields         |-> r.missing,
     sides_detected         |-> [front |-> r.x.has_front, back |-> r.x.has_back_side],
     next_step              |-> "complete",
     files_processed        |-> r.x.files_processed,
     issuing_place_detected |-> r.place,
     products               |-> WithUrls(r.products),
     message                |-> r.message,
     ask_mobile             |-> ~Truthy(r.session.mobile)]

\* session.mobile, the url loop and the response.  A ChatSession instance
\* holds the attributes models.py declares; reading any other attribute
\* raises AttributeError, which Django answers with status 500.
UploadRespond(w) ==
    /\ pc[w] = "respond"
    /\ IF "mobile" \in DOMAIN req[w].session
       THEN Respond(w, UploadPayload(req[w]))
       ELSE Respond(w, ErrorResponse(500, "AttributeError"))
    /\ UNCHANGED <<sessions, records, nReq, rec_in, rec_out, messages, users, otps, now>>

(***************************************************************************)
(* update_emirates_id_record                                               *)
(***************************************************************************)
allowed ==
    <<[key |-> "emirates_id", chars |-> <<"e", "m", "i", "r", "a", "t", "e", "s", "_", "i", "d">>],
      [key |-> "name", chars |-> <<"n", "a", "m", "e">>],
      [key |-> "address", chars |-> <<"a", "d", "d", "r", "e", "s", "s">>],
      [key |-> "expiry_date", chars |-> <<"e", "x", "p", "i", "r", "y", "_", "d", "a", "t", "e">>],
      [key |-> "dob", chars |-> <<"d", "o", "b">>],
      [key |-> "issuing_date", chars |-> <<"i", "s", "s", "u", "i", "n", "g", "_", "d", "a", "t", "e">>],
      [key |-> "nationality", chars |-> <<"n", "a", "t", "i", "o", "n", "a", "l", "i", "t", "y">>],
      [key |-> "occupation", chars |-> <<"o", "c", "c", "u", "p", "a", "t", "i", "o", "n">>],
      [key |-> "employer", chars |-> <<"e", "m", "p", "l", "o", "y", "e", "r">>],
      [key |-> "issuing_place", chars |-> <<"i", "s", "s", "u", "i", "n", "g", "_", "p", "l", "a", "c", "e">>],
      [key |-> "family_sponsor", chars |-> <<"f", "a", "m", "i", "l", "y", "_", "s", "p", "o", "n", "s", "o", "r">>],
      [key |-> "family_sponsor_name", chars |-> <<"f", "a", "m", "i", "l", "y", "_", "s", "p", "o", "n", "s", "o", "r", "_", "n", "a", "m", "e">>]>>

IsAllowed(field) == \E i \in DOMAIN allowed : allowed[i].chars = field

\* setattr on the name column whatever field the request names: the variant
\* C15 is checked against.
AttrOf_AlwaysName(field) == "name"

\* The attribute a normalised field name stands for.
AttrOf(field) == allowed[CHOOSE i \in DOMAIN allowed : allowed[i].chars = field].key

\* The canonical gender of the sex/gender branch.
CanonGender(value) ==
    LET v == Lower(value)
    IN  IF v \in {W_m, W_male, W_ar_male} THEN V_Male
        ELSE IF v \in {W_f, W_female, W_ar_female} THEN V_Female
        ELSE IF value # <<>> THEN Title(value)
        ELSE <<>>

\* The attribute the request writes, "" when it writes none.
UpdateTarget(r) ==
    LET field == Lower(Strip(OrEmpty(r.field)))
    IN  IF r.id = 0 \/ field = <<>> \/ r.id \notin DOMAIN records THEN ""
        ELSE IF field \in {W_sex, W_gender} THEN "gender"
        ELSE IF IsAllowed(field) THEN AttrOf(field)
        ELSE ""

update_emirates_id_record(w) ==
    /\ pc[w] = "update"
    /\ LET rec_id == req[w].id
           field  == Lower(Strip(OrEmpty(req[w].field)))
           value  == Strip(OrEmpty(req[w].value))
       IN  IF rec_id = 0 \/ field = <<>>
           THEN Respond(w, ErrorResponse(400, "id and field required")) /\ UNCHANGED records
           ELSE IF rec_id \notin DOMAIN records
           THEN Respond(w, ErrorResponse(404, "record not found")) /\ UNCHANGED records
           ELSE IF field \in {W_sex, W_gender}
           THEN LET canon == CanonGender(value)
                IN  /\ records' = [records EXCEPT ![rec_id].gender = canon]
                    /\ Respond(w, [status  |-> 200,
                                   ok      |-> TRUE,
                                   message |-> IF canon # <<>>
                                               THEN <<"Thank you, gender saved as ", canon, ".">>
                                               ELSE <<"Gender information saved.">>,
                                   fields  |-> [gender |-> canon]])
           ELSE IF ~IsAllowed(field)
           THEN Respond(w, ErrorResponse(400, "field not allowed")) /\ UNCHANGED records
           ELSE /\ records' = [records EXCEPT ![rec_id][AttrOf(field)] = value]
                /\ Respond(w, [status  |-> 200,
                               ok      |-> TRUE,
                               message |-> <<"Saved">>,
                               fields  |-> [key |-> AttrOf(field), value |-> value]])
    /\ UNCHANGED <<sessions, nReq, rec_in, rec_out, messages, users, otps, now>>

(***************************************************************************)
(* The specifications                                                      *)
(***************************************************************************)
Requests == UploadRequests \cup UpdateRequests

\* The steps of a request in progress.
Step(w) ==
    \/ emirates_id_upload(w)
    \/ get_or_create_get(w)
    \/ get_or_create_create(w)
    \/ UploadMerge(w)
    \/ UploadSync(w)
    \/ UploadRecommend(w)
    \/ UploadRespond(w)
    \/ update_emirates_id_record(w)

Next == \E w \in Workers : (\E r \in Requests : Receive(w, r)) \/ Step(w)

\* Requests from any number of clients: the workers' steps interleave.
Spec == Init /\ [][Next]_vars

\* A request reaches the server only when no other is in progress.
ReceiveAlone(w, r) == (\A v \in Workers : pc[v] = "idle") /\ Receive(w, r)

SeqRequests == Requests \cup {UploadRequest("s1", b) : b \in SeqBatches}

NextSeq == \E w \in Workers : (\E r \in SeqRequests : ReceiveAlone(w, r)) \/ Step(w)

\* One client that waits for each response before its next request.
SpecSeq == Init /\ [][NextSeq]_vars

(***************************************************************************)
(* compute_products_based_on_data on its own: one call with a session and  *)
(* a record (or no record), whatever the tables hold                       *)
(***************************************************************************)
RP_dubai == <<"D", "u", "b", "a", "i">>

RP_dubi == <<"d", "u", "b", "i">>

RP_dubai_pad == <<" ", "D", "U", "B", "A", "I", " ">>

RP_abu_dhabi == <<"A", "b", "u", " ", "D", "h", "a", "b", "i">>

RP_abudhabi == <<"a", "b", "u", "d", "h", "a", "b", "i">>

RP_abu_dubai == <<"a", "b", "u", " ", "d", "u", "b", "a", "i">>

RP_sharjah == <<"s", "h", "a", "r", "j", "a", "h">>

RP_ajman == <<"A", "J", "M", "A", "N">>

RS_above_cap == <<"A", "b", "o", "v", "e", " ", "5", "0", "0", "0">>

RS_3200 == <<"3", "2", "0", "0">>

RS_4000 == <<"4", "0", "0", "0">>

RS_5000 == <<"5", "0", "0", "0">>

RS_6000 == <<"6", "0", "0", "0">>

RS_5000_plus == <<"5", "0", "0", "0", "+">>

RS_high == <<"h", "i", "g", "h">>

\* issuing_place of the record handed to the helper.
RecPlaces ==
    {None, <<>>, RP_dubai, RP_dubi, RP_dubai_pad, RP_abu_dhabi, RP_abudhabi, RP_abu_dubai,
     RP_sharjah, RP_ajman}

\* salary of the session handed to the helper.
RecSalaries ==
    {None, <<>>, SalBelow, SalMid, SalAbove, RS_above_cap, RS_3200, RS_4000, RS_5000,
     RS_6000, RS_5000_plus, RS_high}

NoDefaults ==
    [f \in RecordFields |-> None]

RecRecords ==
    {NoRecord} \cup
    {EmiratesIDRecord(1, "s1", [NoDefaults EXCEPT !.issuing_place = p]) : p \in RecPlaces}

RecSessions == {[ChatSession("None") EXCEPT !.salary = s] : s \in RecSalaries}

Call(session, record) == [called |-> TRUE, session |-> session, record |-> record]

Returned(result) ==
    [returned |-> TRUE, products |-> result.products, message |-> result.message]

InitRec ==
    /\ sessions = [sid \in SessionIds |-> ChatSession("None")]
    /\ records = <<>>
    /\ Idle
    /\ rec_in \in {Call(s, r) : s \in RecSessions, r \in RecRecords}
    /\ rec_out = NoResult
    /\ NoAccounts
    /\ messages = <<>>

Recommend ==
    /\ rec_out = NoResult
    /\ rec_out' = Returned(compute_products_based_on_data(rec_in.session, rec_in.record))
    /\ UNCHANGED <<sessions, records, pc, req, resp, nReq, rec_in, messages, users, otps, now>>

NextRec == Recommend

SpecRec == InitRec /\ [][NextRec]_vars

(***************************************************************************)
(* The recommendation table (C1 - C4), checked under SpecRec               *)
(***************************************************************************)
\* The place and the salary band the helper derives from its arguments.
CallPlace == NormalizePlace(rec_in.record)

CallBand == NormalizeSalary(rec_in.session)

IsProduct(p, name, plan, price) == p.name = name /\ p.plan = plan /\ p.price = price

\* C1: whatever the place and the salary band, the helper returns either a
\* non-empty product list or a non-null message, never both and never
\* neither.
C1_ExactlyOneOfProductsOrMessage ==
    rec_out.returned => ((rec_out.products # <<>>) <=> (rec_out.message = NoMessage))

\* C1 witness: the helper has returned a message and no product for Abu
\* Dhabi with an unknown band.
C1_Witness ==
    /\ rec_out.returned
    /\ CallPlace = PlaceAbuDhabi /\ CallBand = NoBand
    /\ rec_out.products = <<>> /\ rec_out.message # NoMessage

\* C2: for Dubai the helper returns one NLSB 864.00 product below 4000, the
\* NLSB 864.00 and then the LSB 1893.00 product for 4000_5000 and
\* above_5000, one LSB 1893.00 product for an unknown band, and a null
\* message in all three cases.
C2_DubaiRows ==
    (rec_out.returned /\ CallPlace = PlaceDubai) =>
        /\ rec_out.message = NoMessage
        /\ CallBand = "below_4000" =>
               /\ Len(rec_out.products) = 1
               /\ IsProduct(rec_out.products[1], "DHA-Basic", "NLSB", "864.00")
        /\ CallBand \in {"4000_5000", "above_5000"} =>
               /\ Len(rec_out.products) = 2
               /\ IsProduct(rec_out.products[1], "DHA-Basic", "NLSB", "864.00")
               /\ IsProduct(rec_out.products[2], "DHA-Basic", "LSB", "1893.00")
        /\ CallBand = NoBand =>
               /\ Len(rec_out.products) = 1
               /\ IsProduct(rec_out.products[1], "DHA-Basic", "LSB", "1893.00")

\* C2 witness: the helper has returned two products for Dubai and the band
\* 4000_5000.
C2_Witness ==
    /\ rec_out.returned
    /\ CallPlace = PlaceDubai /\ CallBand = "4000_5000"
    /\ Len(rec_out.products) = 2

\* C3: for Abu Dhabi the helper returns no product and the minimum
\* requirement message below 4000 and for 4000_5000, the one Abu Dhabi
\* Eligible Plan at 1350.00 AED and no message above 5000, and no product
\* and the message about the salary for an unknown band.
C3_AbuDhabiRows ==
    (rec_out.returned /\ CallPlace = PlaceAbuDhabi) =>
        /\ CallBand \in {"below_4000", "4000_5000"} =>
               /\ rec_out.products = <<>>
               /\ rec_out.message =
                      "The minimum requirement for this product plan is above 5000 AED"
        /\ CallBand = "above_5000" =>
               /\ Len(rec_out.products) = 1
               /\ rec_out.products[1].name = "Abu Dhabi Eligible Plan"
               /\ rec_out.products[1].price = "1350.00 AED"
               /\ rec_out.message = NoMessage
        /\ CallBand = NoBand =>
               /\ rec_out.products = <<>>
               /\ rec_out.message = MsgConfirmSalary

\* C3 witness: the helper has returned the minimum requirement message for
\* Abu Dhabi and the band 4000_5000.
C3_Witness ==
    /\ rec_out.returned
    /\ CallPlace = PlaceAbuDhabi /\ CallBand = "4000_5000"
    /\ rec_out.message = MsgMinimum

\* C4: for a place that is neither Dubai nor Abu Dhabi, no record and an
\* empty issuing_place included, the helper returns the one General Plan at
\* 999.00 AED above 5000 and, for every other band, no product and the
\* message that asks to confirm the issuing place.
C4_OtherPlaceRows ==
    (rec_out.returned /\ CallPlace \notin {PlaceDubai, PlaceAbuDhabi}) =>
        /\ CallBand = "above_5000" =>
               /\ Len(rec_out.products) = 1
               /\ rec_out.products[1].name = "General Plan (Eligible)"
               /\ rec_out.products[1].price = "999.00 AED"
               /\ rec_out.message = NoMessage
        /\ CallBand # "above_5000" =>
               /\ rec_out.products = <<>>
               /\ rec_out.message = MsgConfirmPlace

\* C4 witness: the helper has returned the General Plan for a call without
\* record and a salary above 5000.
C4_Witness ==
    /\ rec_out.returned
    /\ rec_in.record = NoRecord /\ CallBand = "above_5000"
    /\ Len(rec_out.products) = 1

(***************************************************************************)
(* The upload and the single-field update (C5 - C10)                       *)
(***************************************************************************)
NameAli == <<"A", "l", "i", " ", "K", "h", "a", "n">>

NameAly == <<"A", "l", "y", " ", "K", "h", "a", "n">>

NatIndia == <<"I", "n", "d", "i", "a">>

\* The steps of an upload after get_or_create.
PastGetOrCreate == {"merge", "sync", "recommend", "respond"}

\* The products and the message a worker is about to put in its response
\* are the helper's.
SameAsHelper(r, helper) ==
    WithUrls(r.products) = helper.products /\ r.message = helper.message

\* C5: the products and the message the upload puts in its response are the
\* result of compute_products_based_on_data for the session's salary and the
\* record's issuing place; for Dubai with the band 4000_5000 or above_5000
\* they are the NLSB 864.00 and the LSB 1893.00 product.
C5_UploadAnswersWithHelperResult ==
    \A w \in Workers :
        pc[w] = "respond" =>
            SameAsHelper(req[w], compute_products_based_on_data(req[w].session, req[w].record))

\* Some file of the batch has an OCR result with a non-zero code.
AnyOcrFailure(files) ==
    \E i \in DOMAIN files : ocr_space_file_multi_lang(files[i]).code # 0

\* C6: when the OCR result of any file of the batch has a non-zero code, the
\* upload answers with an error and writes nothing: the records and the
\* sessions are as before.
C6_OcrFailureAbortsUpload ==
    [][\A w \in Workers :
          (/\ pc[w] = "upload" /\ pc'[w] # "upload"
           /\ req[w].session_id \in DOMAIN sessions
           /\ req[w].files # <<>>
           /\ AnyOcrFailure(req[w].files))
          => (/\ pc'[w] = "idle"
              /\ resp'[w].status = 500
              /\ records' = records
              /\ sessions' = sessions)]_vars

\* C6 witness: an upload whose second file failed has been answered with
\* the OCR error while the record of an earlier upload is stored.
C6_Witness ==
    \E w \in Workers :
        /\ resp[w] = ErrorResponse(500, "OCR.space failed")
        /\ records # <<>>

\* The value an upload has extracted for a record field, None when it has
\* extracted none.
Extracted_value(x, f) ==
    IF f = "family_sponsor_name" THEN x.family_sponsor_name
    ELSE IF f \in DOMAIN Merged(x) THEN Merged(x)[f]
    ELSE None

\* C7: an upload for a session that has a record replaces every field for
\* which it extracted a non-empty value and leaves every other field as
\* stored.
C7_LastWriteWinsPerField ==
    [][\A w \in Workers :
          (pc[w] = "merge" /\ pc'[w] = "sync") =>
              \A f \in RecordFields :
                  IF Truthy(Extracted_value(req[w].x, f))
                  THEN records'[req[w].record.id][f] = Extracted_value(req[w].x, f)
                  ELSE records'[req[w].record.id][f] = records[req[w].record.id][f]]_vars

\* C7 witness: after a front upload and a second front upload with another
\* name, the record holds the second name and the nationality of the first.
C7_Witness ==
    /\ Len(records) = 1
    /\ records[1].name = NameAly
    /\ records[1].nationality = NatIndia
    /\ \A w \in Workers : pc[w] = "idle"

\* C8: a populated record field becomes empty only in a step of
\* update_emirates_id_record on that record and that field.
C8_OnlyTargetedUpdateEmpties ==
    [][\A id \in DOMAIN records : \A f \in RecordFields :
          (Truthy(records[id][f]) /\ ~Truthy(records'[id][f])) =>
              \E w \in Workers :
                  /\ pc[w] = "update" /\ pc'[w] = "idle"
                  /\ req[w].id = id
                  /\ UpdateTarget(req[w]) = f]_vars

\* C8 witness: an update of name with an empty value has emptied the name
\* an upload had stored.
C8_Witness ==
    \E w \in Workers :
        /\ resp[w].status = 200
        /\ resp[w].fields = [key |-> "name", value |-> <<>>]
        /\ records[1].name = <<>>
        /\ records[1].nationality = NatIndia

\* C9: a session has at most one record, exactly one once an upload for it
\* has got past get_or_create, and every upload past get_or_create works on
\* that record.
C9_OneRecordPerSession ==
    \A sid \in SessionIds :
        /\ Cardinality(RecordsOf(sid)) <= 1
        /\ sessions[sid].emirates_id_uploaded => Cardinality(RecordsOf(sid)) = 1
        /\ \A w \in Workers :
               (pc[w] \in PastGetOrCreate /\ req[w].session_id = sid) =>
                   RecordsOf(sid) = {req[w].record.id}

\* C9 witness: two overlapping uploads for one session are both past
\* get_or_create and the session has one record.
C9_Witness ==
    \E w, v \in Workers :
        /\ w # v
        /\ pc[w] \in PastGetOrCreate /\ pc[v] \in PastGetOrCreate
        /\ req[w].session_id = req[v].session_id
        /\ Cardinality(RecordsOf(req[w].session_id)) = 1

Range(seq) == {seq[i] : i \in DOMAIN seq}

\* The expected fields: the eight front fields, then occupation, employer
\* and issuing_place.
ExpectedFieldNames ==
    {"emirates_id", "name", "dob", "issuing_date", "expiry_date", "nationality", "gender",
     "address", "occupation", "employer", "issuing_place"}

\* What C11 says is missing for a stored row.
EmptyExpected(row) ==
    {f \in ExpectedFieldNames : ~Truthy(row[f])}
    \cup (IF row.family_sponsor = V_Yes /\ ~Truthy(row.family_sponsor_name)
          THEN {"family_sponsor_name"} ELSE {})

FrontAndBackFieldNames == ExpectedFieldNames \cup {"family_sponsor"}

\* C12: for the first upload of a session, with one file for which every
\* OCR call succeeds with empty text, the missing fields contain each of
\* the eight front field names and occupation, employer, issuing_place and
\* family_sponsor.
C12_BlankUploadMissesEveryField ==
    \A w \in Workers :
        (pc[w] = "respond" /\ nReq = 1 /\ req[w].files = <<F_blank>>) =>
            FrontAndBackFieldNames \subseteq Range(req[w].missing)

\* C13: an upload for an existing session, with files whose OCR calls all
\* return code 0, ends with the success payload: status 200, ok, the id of
\* the record, files_processed equal to the number of files; it does not end
\* in an error once the record and the session are written.
C13_UploadEndsWithSuccessPayload ==
    [][\A w \in Workers :
          (pc[w] = "respond" /\ pc'[w] = "idle") =>
              /\ resp'[w].status = 200
              /\ resp'[w].ok
              /\ resp'[w].id = req[w].record.id
              /\ resp'[w].files_processed = Len(req[w].files)]_vars

(***************************************************************************)
(* insurance_chat (POST) and fallback_to_fsm                               *)
(***************************************************************************)
U_yes == <<"y", "e", "s">>

U_employee == <<"E", "m", "p", "l", "o", "y", "e", "e">>

W_d == <<"d">>

U_spouse == <<"S", "p", "o", "u", "s", "e">>

U_hi == <<"h", "i">>

W_y == <<"y">>

W_e == <<"e">>

W_employee == <<"e", "m", "p", "l", "o", "y", "e", "e">>

W_depender == <<"d", "e", "p", "e", "n", "d", "e", "r">>

W_s == <<"s">>

W_spouse == <<"s", "p", "o", "u", "s", "e">>

W_c == <<"c">>

W_child == <<"c", "h", "i", "l", "d">>

\* str.startswith
StartsWith(s, prefix) == Len(s) >= Len(prefix) /\ SubSeq(s, 1, Len(prefix)) = prefix

ChatRequest(session_id, user_text, user) ==
    [op |-> "chat", session_id |-> session_id, user_text |-> user_text, user |-> user]

\* The salary options of the questions q2 and q2a.
SalaryOptions == <<"below 4000 AED", "4000 - 5000 AED", "above 5000 AED">>

\* What fallback_to_fsm leaves: the session to save, the reply and the
\* options.
Turn(session, reply, options) ==
    [login_required |-> FALSE, session |-> session, reply |-> reply, options |-> options]

\* The early return of step q1: nothing is saved.
LoginRequired(session) ==
    [login_required |-> TRUE, session |-> session, reply |-> <<>>, options |-> <<>>]

FsmStart(session) ==
    Turn([session EXCEPT !.step = "q1"],
         <<"Are you looking for medical insurance?">>, <<"Yes", "No">>)

FsmQ1(session, user_text, user) ==
    IF StartsWith(Lower(user_text), W_y)
    THEN IF user = "None" THEN LoginRequired(session)
         ELSE Turn([session EXCEPT !.looking_for_insurance = "Yes", !.step = "q2"],
                   <<"Are you an employee or a depender?">>, <<"Employee", "Depender">>)
    ELSE Turn([session EXCEPT !.looking_for_insurance = "No", !.is_completed = TRUE],
              <<"Okay. Let me know if you need help later.">>, <<>>)

FsmQ2(session, text) ==
    IF text \in {W_e, W_employee}
    THEN Turn([session EXCEPT !.role = "Employee", !.step = "q3"],
              <<"What is your current monthly salary?">>, SalaryOptions)
    ELSE IF text \in {W_d, W_depender}
    THEN Turn([session EXCEPT !.role = "Depender", !.step = "q2a"],
              <<"What type of depender are you?">>, <<"Spouse", "Child">>)
    ELSE Turn(session, <<"Please select Employee or Depender.">>, <<"Employee", "Depender">>)

FsmQ2a(session, text) ==
    IF text \in {W_s, W_spouse}
    THEN Turn([session EXCEPT !.depender_type = "Spouse", !.step = "q3"],
              <<"What is your sponsor's current monthly salary?">>, SalaryOptions)
    ELSE IF text \in {W_c, W_child}
    THEN Turn([session EXCEPT !.depender_type = "Child", !.step = "q3"],
              <<"What is your sponsor's current monthly salary?">>, SalaryOptions)
    ELSE Turn(session, <<"Please select Spouse or Child.">>, <<"Spouse", "Child">>)

\* Step q3 without the step change: the variant C14 is checked against.
FsmQ3_KeepsStep(session, user_text) ==
    Turn([session EXCEPT !.salary = user_text], ReplyUpload, <<>>)

FsmQ3(session, user_text) ==
    Turn([session EXCEPT !.salary = user_text, !.step = "awaiting_id_frontside"],
         ReplyUpload, <<>>)

\* fallback_to_fsm up to session.save(); free_reply is what the free chat
\* of step "complete" gives (the model's answer, or the apology when that
\* call fails too).
fallback_to_fsm(session, user_text, user, free_reply) ==
    CASE session.step \in {"start", ""} -> FsmStart(session)
      [] session.step = "q1" -> FsmQ1(session, user_text, user)
      [] session.step = "q2" -> FsmQ2(session, Lower(user_text))
      [] session.step = "q2a" -> FsmQ2a(session, Lower(user_text))
      [] session.step = "q3" -> FsmQ3(session, user_text)
      [] session.step = "awaiting_id_frontside" ->
            Turn(session, <<"I see you're trying to upload an Emirates ID. Please use the file upload button to submit the front side of your Emirates ID.">>, <<>>)
      [] session.step = "awaiting_id_backside" ->
            Turn(session, <<"I see you're trying to upload an Emirates ID. Please use the file upload button to submit the back side of your Emirates ID.">>, <<>>)
      [] session.step = "complete" -> Turn(session, free_reply, <<>>)
      [] OTHER ->
            Turn([session EXCEPT !.step = "start"],
                 <<"I seem to have lost track. Let's start over. Are you looking for medical insurance?">>,
                 <<"Yes", "No">>)

\* What the reply-generation call gives: an exception, text that is not
\* JSON, JSON that is not an object, or the expected object.
AiFailure(kind) == [kind |-> kind]

AiObject(reply, options, session_updates, complete) ==
    [kind |-> "object", reply |-> reply, options |-> options,
     session_updates |-> session_updates, complete |-> complete]

AiOutcomes ==
    {AiFailure("error"), AiFailure("not_json"), AiFailure("not_object"),
     AiObject(<<"What is your current monthly salary?">>, SalaryOptions,
              [role |-> "Employee", step |-> "q3", mood |-> "fine"], FALSE),
     AiObject(<<"You are all set.">>, <<>>, [salary |-> SalAbove], TRUE),
     AiObject(<<"Please upload your Emirates ID.">>, <<>>, [step |-> "upload_id"], FALSE)}

\* What the free chat of step "complete" gives.
FreeReplies == {<<"Here is what I found.">>, <<"Sorry, I'm having trouble right now. Error: timeout">>}

\* The POSTs to /insurance-chat the model sends; "s3" is a session id no
\* row has yet, the user "None" a request that is not authenticated.
ChatRequests ==
    {ChatRequest("s1", t, "u1") : t \in {U_yes, U_employee, W_d, U_spouse, <<>>}}
    \cup {ChatRequest("s1", U_yes, "None"), ChatRequest("s3", U_hi, "None")}

\* The session lookup; "if user and session.user is None" attaches the user.
insurance_chat(w) ==
    /\ pc[w] = "chat"
    /\ LET sid == req[w].session_id
       IN  IF sid \notin DOMAIN sessions
           THEN /\ pc' = [pc EXCEPT ![w] = "chat_create"]
                /\ UNCHANGED <<sessions, req>>
           ELSE LET attach  == req[w].user # "None" /\ sessions[sid].user = "None"
                    session == IF attach THEN [sessions[sid] EXCEPT !.user = req[w].user]
                               ELSE sessions[sid]
                IN  /\ sessions' = [sessions EXCEPT ![sid].user = session.user]
                    /\ req' = [req EXCEPT ![w] =
                                  [op |-> "chat", session_id |-> sid,
                                   user_text |-> req[w].user_text, user |-> req[w].user,
                                   session |-> session]]
                    /\ pc' = [pc EXCEPT ![w] = "call"]
    /\ UNCHANGED <<records, resp, nReq, rec_in, rec_out, messages, users, otps, now>>

\* ChatSession.objects.create: session_id is unique, so the INSERT of a
\* second request for the same new id raises IntegrityError.
ChatCreate(w) ==
    /\ pc[w] = "chat_create"
    /\ LET sid == req[w].session_id
       IN  IF sid \in DOMAIN sessions
           THEN /\ Respond(w, ErrorResponse(500, "IntegrityError"))
                /\ UNCHANGED sessions
           ELSE /\ sessions' = [s \in DOMAIN sessions \cup {sid} |->
                                   IF s = sid THEN ChatSession(req[w].user) ELSE sessions[s]]
                /\ req' = [req EXCEPT ![w] =
                              [op |-> "chat", session_id |-> sid,
                               user_text |-> req[w].user_text, user |-> req[w].user,
                               session |-> ChatSession(req[w].user)]]
                /\ pc' = [pc EXCEPT ![w] = "call"]
                /\ UNCHANGED resp
    /\ UNCHANGED <<records, nReq, rec_in, rec_out, messages, users, otps, now>>

\* client.chat.completions.create returns or raises.
ChatCall(w) ==
    /\ pc[w] = "call"
    /\ \E ai \in AiOutcomes :
           req' = [req EXCEPT ![w] =
                      [op |-> "chat", session_id |-> req[w].session_id,
                       user_text |-> req[w].user_text, user |-> req[w].user,
                       session |-> req[w].session, ai |-> ai]]
    /\ pc' = [pc EXCEPT ![w] = "reply"]
    /\ UNCHANGED <<sessions, records, resp, nReq, rec_in, rec_out, messages, users, otps, now>>

\* "for field, value in session_updates.items(): if hasattr(...): setattr",
\* then the completion flag.
ApplyUpdates(session, ai) ==
    [f \in DOMAIN session |->
        IF ai.complete /\ f = "is_completed" THEN TRUE
        ELSE IF ai.complete /\ f = "step" THEN "complete"
        ELSE IF f \in DOMAIN ai.session_updates THEN ai.session_updates[f]
        ELSE session[f]]

\* The locals of a turn once the session is saved.
Answered(r, session, reply, options) ==
    [op |-> "chat", session_id |-> r.session_id, user_text |-> r.user_text, user |-> r.user,
     session |-> session, ai |-> r.ai, reply |-> reply, options |-> options]

\* The turn is saved: session.save() writes every column of the instance.
SaveTurn(w, session, reply, options) ==
    /\ sessions' = [sessions EXCEPT ![req[w].session_id] = SaveFields(@, session, DOMAIN session)]
    /\ req' = [req EXCEPT ![w] = Answered(req[w], session, reply, options)]
    /\ pc' = [pc EXCEPT ![w] = "log_user"]
    /\ UNCHANGED resp

\* The 401 of fallback_to_fsm.
LoginResponse(session_id) ==
    [status |-> 401, error |-> "Authentication required", login_required |-> TRUE,
     session_id |-> session_id]

\* fallback_to_fsm as called from insurance_chat.
Fallback(w, turn) ==
    IF turn.login_required
    THEN Respond(w, LoginResponse(req[w].session_id)) /\ UNCHANGED sessions
    ELSE SaveTurn(w, turn.session, turn.reply, turn.options)

\* The handler after the call: the object's reply and updates, or the
\* fallback when the call raised, the text is not JSON or not an object.
ChatReply(w) ==
    /\ pc[w] = "reply"
    /\ IF req[w].ai.kind = "object"
       THEN SaveTurn(w, ApplyUpdates(req[w].session, req[w].ai), req[w].ai.reply,
                     req[w].ai.options)
       ELSE \E free_reply \in FreeReplies :
                Fallback(w, fallback_to_fsm(req[w].session, req[w].user_text, req[w].user,
                                            free_reply))
    /\ UNCHANGED <<records, nReq, rec_in, rec_out, messages, users, otps, now>>

\* "if user_text: ChatMessage.objects.create(... role='user' ...)"
ChatLogUser(w) ==
    /\ pc[w] = "log_user"
    /\ messages' = IF req[w].user_text # <<>>
                   THEN Append(messages, ChatMessage(req[w].session_id, "user", req[w].user_text))
                   ELSE messages
    /\ pc' = [pc EXCEPT ![w] = "log_bot"]
    /\ UNCHANGED <<sessions, records, req, resp, nReq, rec_in, rec_out, users, otps, now>>

\* The JSON of a turn.
ChatResponse(r) ==
    [status |-> 200, reply |-> r.reply, options |-> r.options, session_id |-> r.session_id,
     step |-> r.session.step]

\* "if reply: ChatMessage.objects.create(... role='bot' ...)" and the
\* response.
ChatLogBot(w) ==
    /\ pc[w] = "log_bot"
    /\ messages' = IF req[w].reply # <<>>
                   THEN Append(messages, ChatMessage(req[w].session_id, "bot", req[w].reply))
                   ELSE messages
    /\ Respond(w, ChatResponse(req[w]))
    /\ UNCHANGED <<sessions, records, nReq, rec_in, rec_out, users, otps, now>>

\* The session of the chat specification at a given step: the fields the
\* chat flow has set by then.
SessionAt(step) ==
    IF step \in {"start", "q1"} THEN [ChatSession("None") EXCEPT !.step = step]
    ELSE IF step \in {"q2", "q2a", "q3"}
    THEN [ChatSession("u1") EXCEPT !.step = step, !.looking_for_insurance = "Yes"]
    ELSE [AwaitingId(SalMid) EXCEPT !.step = step]

ChatSteps ==
    {"start", "q1", "q2", "q2a", "q3", "awaiting_id_frontside", "awaiting_id_backside",
     "complete", "lost"}

InitChat ==
    /\ \E step \in ChatSteps :
           sessions = [sid \in SessionIds |-> IF sid = "s1" THEN SessionAt(step)
                                              ELSE AwaitingId(SalMid)]
    /\ messages = Transcript("s2", AwaitingId(SalMid))
    /\ records = <<>>
    /\ Idle
    /\ rec_in = NoCall
    /\ rec_out = NoResult
    /\ NoAccounts

ChatStep(w) ==
    \/ insurance_chat(w)
    \/ ChatCreate(w)
    \/ ChatCall(w)
    \/ ChatReply(w)
    \/ ChatLogUser(w)
    \/ ChatLogBot(w)

NextChat == \E w \in Workers : (\E r \in ChatRequests : Receive(w, r)) \/ ChatStep(w)

\* Chat turns from any number of clients: the workers' steps interleave.
SpecChat == InitChat /\ [][NextChat]_vars

NextChatSeq == \E w \in Workers : (\E r \in ChatRequests : ReceiveAlone(w, r)) \/ ChatStep(w)

\* Chat turns of one client that waits for each response.
SpecChatSeq == InitChat /\ [][NextChatSeq]_vars

(***************************************************************************)
(* The fallback of the chat turn (C14), checked under SpecChatSeq          *)
(***************************************************************************)
\* The reply-generation call failed or gave text that is not JSON.
AiFailed(r) == r.ai.kind \in {"error", "not_json"}

\* The steps of the deterministic machine: start -> q1 -> q2 -> q2a / q3 ->
\* awaiting_id_frontside; a question that is not answered is asked again,
\* the upload steps and complete stay, an unknown step goes back to start.
FsmEdge(from, to) ==
    CASE from = "start" -> to = "q1"
      [] from = "q1" -> to \in {"q1", "q2"}
      [] from = "q2" -> to \in {"q2", "q2a", "q3"}
      [] from = "q2a" -> to \in {"q2a", "q3"}
      [] from = "q3" -> to = "awaiting_id_frontside"
      [] from \in {"awaiting_id_frontside", "awaiting_id_backside", "complete"} -> to = from
      [] OTHER -> to = "start"

\* The keys of the JSON of a turn.
TurnKeys == {"status", "reply", "options", "session_id", "step"}

\* After a failed call the handler goes on to its answer with the step the
\* machine gives, saved in the session.
AnsweredByFsm(w) ==
    /\ pc'[w] = "log_user"
    /\ FsmEdge(req[w].session.step, req'[w].session.step)
    /\ sessions'[req[w].session_id].step = req'[w].session.step

\* The answer of a turn whose call failed is the JSON with reply, options,
\* session_id and step.
FsmTurnAnswered(w) ==
    (pc[w] = "log_bot" /\ AiFailed(req[w])) =>
        /\ resp'[w].status = 200
        /\ DOMAIN resp'[w] = TurnKeys
        /\ resp'[w].session_id = req[w].session_id
        /\ resp'[w].step = req[w].session.step

\* The one turn the machine refuses: "yes" at step q1 from a request that
\* is not authenticated.
LoginNeeded(r) ==
    r.session.step = "q1" /\ StartsWith(Lower(r.user_text), W_y) /\ r.user = "None"

\* C14 as stated: whenever the reply-generation call fails or returns text
\* that is not JSON, the chat POST does not fail; it answers from the
\* machine over the session's step with reply, options, session_id and step.
C14_FallbackAlwaysAnswers ==
    [][\A w \in Workers :
          /\ (pc[w] = "reply" /\ pc'[w] # "reply" /\ AiFailed(req[w])) => AnsweredByFsm(w)
          /\ FsmTurnAnswered(w)]_vars

\* C14 amended: as stated, except for "yes" at step q1 from a request that
\* is not authenticated, which is answered with 401 "Authentication
\* required" and leaves the session as it was.
C14_FallbackAnswersOrAsksLogin ==
    [][\A w \in Workers :
          /\ (pc[w] = "reply" /\ pc'[w] # "reply" /\ AiFailed(req[w])) =>
                 IF LoginNeeded(req[w])
                 THEN /\ resp'[w] = LoginResponse(req[w].session_id)
                      /\ pc'[w] = "idle"
                      /\ sessions' = sessions /\ messages' = messages
                 ELSE AnsweredByFsm(w)
          /\ FsmTurnAnswered(w)]_vars

\* C14 witness: after a failed call the machine has answered the "yes" of
\* an authenticated user at step q1 and moved the session to q2.
C14_Witness ==
    \E w \in Workers :
        /\ pc[w] = "log_user"
        /\ AiFailed(req[w])
        /\ req[w].session.step = "q2"
        /\ sessions[req[w].session_id].step = "q2"

(***************************************************************************)
(* Request validation (C15), checked under Spec                            *)
(***************************************************************************)
\* An upload without session_id, with an unknown session_id or without files.
UploadInvalid(r) == r.session_id = "" \/ r.session_id \notin DOMAIN sessions \/ r.files = <<>>

\* The field name of an update as the handler reads it.
UpdateField(r) == Lower(Strip(OrEmpty(r.field)))

\* The names an update may carry: the allow-list, and sex and gender.
UpdatableNames == {allowed[i].chars : i \in DOMAIN allowed} \cup {W_sex, W_gender}

\* An update without id or field, with an unknown record id or with a field
\* name outside the allow-list.
UpdateInvalid(r) ==
    \/ r.id = 0
    \/ UpdateField(r) = <<>>
    \/ r.id \notin DOMAIN records
    \/ UpdateField(r) \notin UpdatableNames

\* The column a valid field name stands for; sex and gender are the gender
\* column.
ColumnOf(field) ==
    IF field \in {W_sex, W_gender} THEN "gender"
    ELSE CHOOSE f \in RecordFields :
             \E i \in DOMAIN allowed : allowed[i].key = f /\ allowed[i].chars = field

\* The request of worker w ends with a client error and no table changes.
Rejected(w) ==
    /\ pc'[w] = "idle"
    /\ resp'[w].status \in 400..499
    /\ sessions' = sessions /\ records' = records /\ messages' = messages

\* The update of worker w ends with status 200 and changes at most the
\* targeted column of the targeted row.
OnlyTargetChanged(w) ==
    /\ pc'[w] = "idle"
    /\ resp'[w].status = 200
    /\ sessions' = sessions /\ messages' = messages
    /\ DOMAIN records' = DOMAIN records
    /\ \A i \in DOMAIN records : \A f \in DOMAIN records[i] :
           (i # req[w].id \/ f # ColumnOf(UpdateField(req[w]))) =>
               records'[i][f] = records[i][f]

\* C15: an upload without session_id, with an unknown session_id or without
\* files, and an update without id or field, with an unknown record id or
\* with a field outside the allow-list, end with a client error and change
\* no session, record or message; a valid update changes only the targeted
\* field of the record.
C15_ValidationRejectsWithoutMutation ==
    [][\A w \in Workers :
          /\ (pc[w] = "upload" /\ pc'[w] # "upload" /\ UploadInvalid(req[w])) => Rejected(w)
          /\ (pc[w] = "update" /\ pc'[w] # "update" /\ UpdateInvalid(req[w])) => Rejected(w)
          /\ (pc[w] = "update" /\ pc'[w] # "update" /\ ~UpdateInvalid(req[w])) =>
                 OnlyTargetChanged(w)]_vars

\* C15 witness: an update of the field " Nationality" has been answered
\* with 200 and has changed the nationality of the record an upload
\* created, and nothing else of it.
C15_Witness ==
    \E w \in Workers :
        /\ resp[w].status = 200
        /\ resp[w].fields = [key |-> "nationality", value |-> <<"O", "m", "a", "n">>]
        /\ records[1].nationality = <<"O", "m", "a", "n">>
        /\ records[1].name = NameAli

(***************************************************************************)
(* The helpers on their own: one call of one helper with one argument.     *)
(* The arguments are put together from a few leading, middle and trailing  *)
(* pieces.                                                                 *)
(***************************************************************************)
\* session.salary: a lead word, an amount and a unit.
SalaryLeads ==
    {<<>>, <<"b", "e", "l", "o", "w", " ">>, <<"a", "b", "o", "v", "e", " ">>,
     <<"A", "b", "o", "v", "e", " ">>, <<"m", "o", "r", "e", " ", "t", "h", "a", "n", " ">>, <<"a", "b", "o", "u", "t", " ">>}

SalaryAmounts ==
    {<<>>, <<"3", "2", "0", "0">>, <<"4", "0", "0", "0">>,
     <<"5", "0", "0", "0">>, <<"5", "0", "0", "1">>, <<"5", "0", "0", "0", "+">>,
     <<"5", "0", "0", "0", " ", "=">>, <<"4", "0", "0", "0", " ", "-", " ", "5", "0", "0", "0">>, <<"h", "i", "g", "h">>}

SalaryUnits ==
    {<<>>, <<" ", "A", "E", "D">>}

SalaryTexts ==
    {None} \cup {a \o b \o c : a \in SalaryLeads, b \in SalaryAmounts, c \in SalaryUnits}

\* record.issuing_place: a head and a tail.
PlaceHeads ==
    {<<>>, <<"A", "b", "u">>, <<"A", "B", "U", " ", "D", "H", "A", "B", "I">>,
     <<"A", "d", "a", "b", "i">>, <<"a", "b", "u", "d">>, <<"S", "h", "a", "r", "j", "a", "h">>,
     <<" ", "a", "j", "m", "a", "n">>}

PlaceTails ==
    {<<>>, <<" ", "D", "u", "b">>, <<" ", "D", "u", "b", "a", "i">>,
     <<" ", "d", "u", "b", "i">>, <<" ">>}

PlaceTexts == {None} \cup {a \o b : a \in PlaceHeads, b \in PlaceTails}

\* The text of a card side: some of these words, in this order.
SideWords ==
    <<<<"O", "c", "c", "u", "p", "a", "t", "i", "o", "n">>,
      <<"E", "m", "p", "l", "o", "y", "e", "r">>,
      <<"I", "s", "s", "u", "i", "n", "g", " ", "P", "l", "a", "c", "e">>,
      <<"N", "a", "m", "e">>,
      <<"N", "a", "t", "i", "o", "n", "a", "l", "i", "t", "y">>,
      <<"D", "a", "t", "e", " ", "o", "f", " ", "B", "i", "r", "t", "h">>>>

RECURSIVE WordsOf(_, _)
WordsOf(picked, i) ==
    IF i > Len(SideWords) THEN <<>>
    ELSE IF i \in picked THEN <<SideWords[i]>> \o WordsOf(picked, i + 1)
    ELSE WordsOf(picked, i + 1)

SideTexts == {Join(WordsOf(picked, 1), <<" ">>) : picked \in SUBSET DOMAIN SideWords}

\* A front text with one labelled date.
DateLabelTexts ==
    {<<"D", "a", "t", "e", " ", "o", "f", " ", "B", "i", "r", "t", "h", ":", " ">>, <<"I", "s", "s", "u", "e", " ", "D", "a", "t", "e", ":", " ">>, <<"E", "x", "p", "i", "r", "y", " ", "D", "a", "t", "e", ":", " ">>}

DateDays ==
    {<<"0", "1">>, <<"7">>}

DateMonths ==
    {<<"0", "5">>, <<"5">>, <<"1", "2">>, <<"1", "3">>, <<"0", "0">>}

DateSeparators ==
    {<<"/">>, <<"-">>}

DateYear == <<"1", "9", "9", "0">>

DateTexts ==
    {d \o s1 \o m \o s2 \o DateYear :
        d \in DateDays, s1 \in DateSeparators, m \in DateMonths, s2 \in DateSeparators}

DatedTexts == {l \o d : l \in DateLabelTexts, d \in DateTexts}

\* A front text with an ID number between a head and a tail.
IdNumber == <<"7", "8", "4", "-", "1", "9", "9", "0", "-", "1", "2", "3", "4", "5", "6", "7", "-", "1">>

IdHeads ==
    {<<>>, <<"7">>, <<"I", "D", " ">>,
     <<"x">>, <<"N", "o", ":">>, <<"7", "8", "4", "-", "1", "9", "9", "1", "-", "7", "6", "5", "4", "3", "2", "1", "-", "2", " ">>}

IdTails ==
    {<<>>, <<"2">>, <<" ">>,
     <<"a">>, <<"-", "2">>, <<" ", "7", "8", "4", "-", "1", "9", "9", "1", "-", "7", "6", "5", "4", "3", "2", "1", "-", "2">>}

IdTexts == {a \o IdNumber \o b : a \in IdHeads, b \in IdTails}

\* What the service does with one OCR call, and the files to OCR: an image
\* or a PDF with the outcome of its English and of its Arabic call.
OcrOutcomes ==
    {OcrOk(<<TxtFrontB>>), OcrOk(<<TxtShortEng>>), OcrOk(<<TxtShortAra>>), OcrOk(<< <<>> >>),
     OcrOk(<<TxtShortEng, TxtShortEng>>), OcrOk(<<>>),
     Fails("network"), Fails("http"), Fails("errored"), Fails("exception")}

OcrFiles ==
    {UploadedFile(is_pdf, eng, ara) :
        is_pdf \in BOOLEAN, eng \in OcrOutcomes, ara \in OcrOutcomes}

\* The OCR texts of the files of an upload: up to MaxFiles files.
MaxFiles == 2

OcrTexts == {TxtFrontA, TxtFrontB, TxtBackDubai, TxtBackAjman, TxtShortEng, <<>>}

FileTexts == UNION {[1..n -> OcrTexts] : n \in 0..MaxFiles}

PureCall(fn, arg) == [fn |-> fn, arg |-> arg]

(***************************************************************************)
(* middleware.py: AuthenticationMiddleware                                 *)
(***************************************************************************)
\* The names the module imports (lines 2-4); json is not one of them.
MiddlewareImports == {"JsonResponse", "MiddlewareMixin", "urlparse"}

Raised(exception) == [raised |-> TRUE, exception |-> exception]

\* json.loads(request.body.decode('utf-8')): the lookup of a name the module
\* does not have raises NameError before the body is read.
json_loads(body) ==
    IF "json" \notin MiddlewareImports THEN Raised("NameError")
    ELSE IF body.kind = "not_json" THEN Raised("JSONDecodeError")
    ELSE [raised |-> FALSE, value |-> body]

\* body.get("user_text", "").lower() in {"", "yes"}; a body that is no
\* object raises AttributeError.
FirstTurn(value) ==
    /\ value.kind = "object"
    /\ Lower(IF value.user_text = None THEN <<>> ELSE value.user_text) \in {<<>>, <<"y", "e", "s">>}

\* The try block: an exception is passed over.
ChatAllowance(request) ==
    /\ StartsWith(request.path, <<"/", "a", "p", "i", "/", "i", "n", "s", "u", "r", "a", "n", "c", "e", "-", "c", "h", "a", "t", "/">>)
    /\ request.method = "POST"
    /\ ~json_loads(request.body).raised
    /\ FirstTurn(json_loads(request.body).value)

Unauthorized == [returns |-> "JsonResponse", status |-> 401, error |-> "Authentication required",
                 login_required |-> TRUE]

ReturnsNone == [returns |-> "None"]

\* The paths the middleware lets everybody use.
Open(path) ==
    StartsWith(path, <<"/", "a", "p", "i", "/", "a", "u", "t", "h", "/">>) \/ StartsWith(path, <<"/", "s", "t", "a", "t", "i", "c", "/">>) \/ path = <<"/">>

process_request(request) ==
    IF Open(request.path) THEN ReturnsNone
    ELSE IF ChatAllowance(request) THEN ReturnsNone
    ELSE IF ~request.authenticated THEN Unauthorized
    ELSE ReturnsNone

\* The requests the middleware sees: a path, a method, a body that is a
\* JSON object with or without user_text, a JSON array or no JSON, and
\* whether the user is authenticated.
MiddlewarePaths ==
    {<<"/">>, <<"/", "a", "p", "i", "/", "a", "u", "t", "h", "/", "s", "e", "n", "d", "-", "o", "t", "p", "/">>, <<"/", "s", "t", "a", "t", "i", "c", "/", "a", "p", "p", ".", "j", "s">>, <<"/", "a", "p", "i", "/", "i", "n", "s", "u", "r", "a", "n", "c", "e", "-", "c", "h", "a", "t", "/">>, <<"/", "a", "p", "i", "/", "e", "m", "i", "r", "a", "t", "e", "s", "-", "i", "d", "/">>, <<"/", "a", "p", "i", "/", "i", "n", "s", "u", "r", "a", "n", "c", "e", "-", "c", "h", "a", "t">>}

JsonObject(user_text) == [kind |-> "object", user_text |-> user_text]

MiddlewareBodies ==
    {JsonObject(t) : t \in {None, <<>>, <<"y", "e", "s">>, <<"Y", "E", "S">>, <<"Y", "e", "s">>, <<"n", "o">>, <<"y", "e", "s", " ", "p", "l", "e", "a", "s", "e">>}}
    \cup {[kind |-> "array"], [kind |-> "not_json"]}

MiddlewareRequests ==
    {[path |-> path, method |-> method, body |-> body, authenticated |-> authenticated] :
        path \in MiddlewarePaths, method \in {"GET", "POST"}, body \in MiddlewareBodies,
        authenticated \in BOOLEAN}

\* Back texts: a label and a value with punctuation and blanks around it.
BackLabelTexts == {<<"O", "c", "c", "u", "p", "a", "t", "i", "o", "n", ":", " ">>, <<"E", "m", "p", "l", "o", "y", "e", "r", " ">>, <<"I", "s", "s", "u", "i", "n", "g", " ", "P", "l", "a", "c", "e", ":">>}

BackValueTexts == {<<"C", "o", "o", "k">>, <<"C", "o", "o", "k", " ", ".">>, <<".", " ", "C", "o", "o", "k">>, <<"C", "o", "o", "k", ":">>, <<" ", "C", "o", "-", "o", "p", " ", " ">>, <<"C", "o", "o", "k", "\n", "I", "s", "s", "u", "i", "n", "g", " ", "P", "l", "a", "c", "e", ":", " ", "D", "u", "b", "a", "i", " ", "(">>}

BackTexts == {l \o v : l \in BackLabelTexts, v \in BackValueTexts}

\* Front texts whose last line ends with colons.
ColonTexts == {<<"N", "a", "m", "e", ":", " ", "A", "l", "i", " ", "K", "h", "a", "n", "\n", "A", "l", " ", "A", "i", "n", " ", "r", "o", "a", "d", ":", " ", ":">>, <<"N", "a", "m", "e", ":", " ", "A", "l", "i", " ", "K", "h", "a", "n", " ", ":">>}

PureCalls ==
    {PureCall("salary", s) : s \in SalaryTexts}
        \cup {PureCall("place", p) : p \in PlaceTexts}
        \cup {PureCall("side", t) : t \in SideTexts}
        \cup {PureCall("front", t) : t \in DatedTexts \cup IdTexts \cup ColonTexts}
        \cup {PureCall("back", t) : t \in BackTexts}
        \cup {PureCall("middleware", r) : r \in MiddlewareRequests}
        \cup {PureCall("ocr", f) : f \in OcrFiles}
        \cup {PureCall("group", ts) : ts \in FileTexts}

Value(v) == [returned |-> TRUE, value |-> v]

InitPure ==
    /\ sessions = [sid \in SessionIds |-> ChatSession("None")]
    /\ records = <<>>
    /\ Idle
    /\ rec_in \in PureCalls
    /\ rec_out = NoResult
    /\ NoAccounts
    /\ messages = <<>>

\* salary_key of compute_products_based_on_data for a session with this salary.
ApplySalary ==
    /\ rec_out = NoResult /\ rec_in.fn = "salary"
    /\ rec_out' = Value(NormalizeSalary([ChatSession("None") EXCEPT !.salary = rec_in.arg]))
    /\ UNCHANGED <<sessions, records, pc, req, resp, nReq, rec_in, messages, users, otps, now>>

\* place of compute_products_based_on_data for a record with this
\* issuing_place.
ApplyPlace ==
    /\ rec_out = NoResult /\ rec_in.fn = "place"
    /\ rec_out' = Value(NormalizePlace(
                      EmiratesIDRecord(1, "s1", [NoDefaults EXCEPT !.issuing_place = rec_in.arg])))
    /\ UNCHANGED <<sessions, records, pc, req, resp, nReq, rec_in, messages, users, otps, now>>

ApplySide ==
    /\ rec_out = NoResult /\ rec_in.fn = "side"
    /\ rec_out' = Value(detect_document_side(rec_in.arg))
    /\ UNCHANGED <<sessions, records, pc, req, resp, nReq, rec_in, messages, users, otps, now>>

ApplyFront ==
    /\ rec_out = NoResult /\ rec_in.fn = "front"
    /\ rec_out' = Value(parse_fields(rec_in.arg))
    /\ UNCHANGED <<sessions, records, pc, req, resp, nReq, rec_in, messages, users, otps, now>>

ApplyMiddleware ==
    /\ rec_out = NoResult /\ rec_in.fn = "middleware"
    /\ rec_out' = Value(process_request(rec_in.arg))
    /\ UNCHANGED <<sessions, records, pc, req, resp, nReq, rec_in, messages, users, otps, now>>

ApplyBack ==
    /\ rec_out = NoResult /\ rec_in.fn = "back"
    /\ rec_out' = Value(parse_back_side_fields(rec_in.arg))
    /\ UNCHANGED <<sessions, records, pc, req, resp, nReq, rec_in, messages, users, otps, now>>

\* The OCR of one file: the calls made and the result returned.
ApplyOcr ==
    /\ rec_out = NoResult /\ rec_in.fn = "ocr"
    /\ rec_out' = Value([calls  |-> OcrCalls(rec_in.arg),
                         result |-> ocr_space_file_multi_lang(rec_in.arg)])
    /\ UNCHANGED <<sessions, records, pc, req, resp, nReq, rec_in, messages, users, otps, now>>

\* The grouping of the processed files into the two texts.
ApplyGroup ==
    /\ rec_out = NoResult /\ rec_in.fn = "group"
    /\ rec_out' = Value(CombinedTexts([i \in DOMAIN rec_in.arg |-> Entry(rec_in.arg[i])]))
    /\ UNCHANGED <<sessions, records, pc, req, resp, nReq, rec_in, messages, users, otps, now>>

NextPure ==
    \/ ApplySalary \/ ApplyPlace \/ ApplySide \/ ApplyFront \/ ApplyBack \/ ApplyOcr \/ ApplyGroup
    \/ ApplyMiddleware

SpecPure == InitPure /\ [][NextPure]_vars

\* The call that has returned, if it was a call of fn.
Applied(fn) == rec_out # NoResult /\ rec_in.fn = fn

(***************************************************************************)
(* Salary bands (C16), checked under SpecPure                              *)
(***************************************************************************)
\* The band of the first integer n of s; unknown when s has no digit.
BandOfFirstInteger(s) ==
    IF FirstInt(s) < 0 THEN NoBand
    ELSE IF FirstInt(s) < 4000 THEN "below_4000"
    ELSE IF FirstInt(s) <= 5000 THEN "4000_5000"
    ELSE "above_5000"

\* The band by the three word rules and the first integer, s in lower case.
ListedBand(s) ==
    IF Contains(s, <<"b", "e", "l", "o", "w">>) /\ Contains(s, <<"4", "0", "0", "0">>) THEN "below_4000"
    ELSE IF Contains(s, <<"4", "0", "0", "0">>) /\ Contains(s, <<"5", "0", "0", "0">>) THEN "4000_5000"
    ELSE IF Contains(s, <<"a", "b", "o", "v", "e">>) /\ Contains(s, <<"5", "0", "0", "0">>) THEN "above_5000"
    ELSE BandOfFirstInteger(s)

\* The phrases that mean above 5000 without the word "above".
AbovePhrases ==
    {<<"m", "o", "r", "e", " ", "t", "h", "a", "n", " ", "5", "0", "0", "0">>,
     <<"5", "0", "0", "0", "+">>,
     <<"5", "0", "0", "0", " ", "=">>}

\* The same with the phrase rule between the word rules and the integer.
BandWithPhrases(s) ==
    IF Contains(s, <<"b", "e", "l", "o", "w">>) /\ Contains(s, <<"4", "0", "0", "0">>) THEN "below_4000"
    ELSE IF Contains(s, <<"4", "0", "0", "0">>) /\ Contains(s, <<"5", "0", "0", "0">>) THEN "4000_5000"
    ELSE IF Contains(s, <<"a", "b", "o", "v", "e">>) /\ Contains(s, <<"5", "0", "0", "0">>) THEN "above_5000"
    ELSE IF \E p \in AbovePhrases : Contains(s, p) THEN "above_5000"
    ELSE BandOfFirstInteger(s)

\* C16 as stated: the band of a salary string is below_4000 if it contains
\* "below" and "4000", else 4000_5000 if it contains "4000" and "5000", else
\* above_5000 if it contains "above" and "5000", else the band of its first
\* integer n (below_4000 if n < 4000, 4000_5000 if 4000 <= n <= 5000,
\* above_5000 if n > 5000), else unknown.
C16_SalaryRulesAsListed ==
    Applied("salary") => rec_out.value = ListedBand(Lower(OrEmpty(rec_in.arg)))

\* C16 amended: as above, but a string that matches none of the three word
\* rules and contains "more than 5000", "5000+" or "5000 =" is in
\* above_5000, before its first integer is looked at.
C16_SalaryRulesWithPhrases ==
    Applied("salary") => rec_out.value = BandWithPhrases(Lower(OrEmpty(rec_in.arg)))

\* C16 witness: the band of "5000+" has been computed and is above_5000.
C16_Witness ==
    /\ Applied("salary")
    /\ rec_in.arg = <<"5", "0", "0", "0", "+">>
    /\ rec_out.value = "above_5000"

(***************************************************************************)
(* Issuing places (C17), checked under SpecPure                            *)
(***************************************************************************)
\* s, in lower case, passes an Abu Dhabi test.
AbuDhabiTest(s) ==
    \/ (Contains(s, <<"a", "b", "u">>) /\ ~Contains(s, <<"d", "u", "b">>))
    \/ \E k \in {<<"a", "d", "h", "a", "b", "i">>, <<"a", "d", "a", "b", "i">>,
                 <<"a", "b", "u", "d", "h", "a", "b", "i">>, <<"a", "b", "u", "d">>} : Contains(s, k)

\* s, in lower case, passes a Dubai test.
DubaiTest(s) ==
    \E k \in {<<"d", "u", "b", "a">>, <<"d", "u", "b", "a", "i">>, <<"d", "u", "b", "i">>} : Contains(s, k)

\* The place by the listed tests; raw is the string without the white space
\* around it.
ListedPlace(raw) ==
    IF AbuDhabiTest(Lower(raw)) THEN PlaceAbuDhabi
    ELSE IF DubaiTest(Lower(raw)) THEN PlaceDubai
    ELSE IF raw # <<>> THEN Title(raw)
    ELSE None

\* The same with the phrase "abu dhabi" tested after the Dubai tests.
PlaceWithPhrase(raw) ==
    IF AbuDhabiTest(Lower(raw)) THEN PlaceAbuDhabi
    ELSE IF DubaiTest(Lower(raw)) THEN PlaceDubai
    ELSE IF Contains(Lower(raw), <<"a", "b", "u", " ", "d", "h", "a", "b", "i">>) THEN PlaceAbuDhabi
    ELSE IF raw # <<>> THEN Title(raw)
    ELSE None

\* C17 as stated: whatever its letter case, an issuing place that contains
\* "abu" and not "dub", or one of "adhabi", "adabi", "abudhabi", "abud", is
\* Abu Dhabi; else one that contains "duba", "dubai" or "dubi" is Dubai; else
\* it is the title-cased string, or none for an empty one.  So a string that
\* passes an Abu Dhabi test and a Dubai test is Abu Dhabi.
C17_PlaceTestsAsListed ==
    Applied("place") => rec_out.value = ListedPlace(Strip(OrEmpty(rec_in.arg)))

\* C17 amended: as above, but a string that passes neither an Abu Dhabi test
\* nor a Dubai test and contains the phrase "abu dhabi" is Abu Dhabi, not its
\* title-cased self.
C17_PlaceTestsWithPhrase ==
    Applied("place") => rec_out.value = PlaceWithPhrase(Strip(OrEmpty(rec_in.arg)))

\* C17 witness: the place of "ABU DHABI Dub" has been computed and is Abu
\* Dhabi.
C17_Witness ==
    /\ Applied("place")
    /\ rec_in.arg = <<"A", "B", "U", " ", "D", "H", "A", "B", "I", " ", "D", "u", "b">>
    /\ rec_out.value = PlaceAbuDhabi

(***************************************************************************)
(* The side classifier (C18), checked under SpecPure                       *)
(***************************************************************************)
\* The keywords of a list that occur in the text, whatever its letter case.
KeywordsIn(text, indicators) ==
    {indicators[i] : i \in {j \in DOMAIN indicators : Contains(Lower(text), indicators[j])}}

\* The side by the numbers of back and of front keywords in the text.
SideByKeywords(back, front) ==
    IF Cardinality(back) > Cardinality(front) THEN "back"
    ELSE IF Cardinality(front) > Cardinality(back) THEN "front"
    ELSE "unknown"

\* C18: the classifier returns "back" iff more back keywords than front
\* keywords occur in the text, "front" iff more front keywords than back
\* keywords occur, and "unknown" iff as many of each occur, every keyword
\* counted once; one back keyword with one front keyword gives "unknown".
C18_EachKeywordCountedOnce ==
    Applied("side") =>
        rec_out.value = SideByKeywords(KeywordsIn(rec_in.arg, back_indicators),
                                       KeywordsIn(rec_in.arg, front_indicators))

(***************************************************************************)
(* Dates of the front extractor (C19), checked under SpecPure              *)
(***************************************************************************)
\* The date of a text with one labelled date: what follows ": ".
LabelledDate(text) ==
    SubSeq(text, (CHOOSE i \in DOMAIN text : text[i] = ":") + 2, Len(text))

\* The three parts of a date D{1,2}[/-]D{1,2}[/-]DDDD, by position.
DayDigits(date) == SubSeq(date, 1, IF IsDigit(date[2]) THEN 2 ELSE 1)

MonthDigits(date) == SubSeq(date, Len(DayDigits(date)) + 2, Len(date) - 5)

YearDigits(date) == SubSeq(date, Len(date) - 3, Len(date))

\* The date as day/Mon/year, for a month from 1 to 12.
DayMonYear(date) ==
    DayDigits(date) \o <<"/">> \o month_names[IntOf(MonthDigits(date))] \o <<"/">>
        \o YearDigits(date)

\* out is the date with its month as a 3-letter name.
IsReformatted(out, date) == IntOf(MonthDigits(date)) \in 1..12 /\ out = DayMonYear(date)

DateFieldNames == {"dob", "issuing_date", "expiry_date"}

\* C19: every date the front extractor outputs (dob, issuing_date,
\* expiry_date) for a matched date D{1,2}[/-]D{1,2}[/-]DDDD is that date as
\* DD/Mon/YYYY with a 3-letter month name, whichever separators it has, or,
\* for a date that cannot be parsed, the date unchanged.
C19_DatesReformattedOrUnchanged ==
    (Applied("front") /\ rec_in.arg \in DatedTexts) =>
        \A f \in DateFieldNames :
            rec_out.value[f] # None =>
                \/ IsReformatted(rec_out.value[f], LabelledDate(rec_in.arg))
                \/ rec_out.value[f] = LabelledDate(rec_in.arg)

(***************************************************************************)
(* The ID number of the front extractor (C20), checked under SpecPure      *)
(***************************************************************************)
IdShape == <<"D", "D", "D", "-", "D", "D", "D", "D", "-", "D", "D", "D", "D", "D", "D", "D", "-", "D">>

\* The 18 characters of s from i on have the form DDD-DDDD-DDDDDDD-D.
HasIdShapeAt(s, i) ==
    /\ i + Len(IdShape) - 1 <= Len(s)
    /\ \A k \in DOMAIN IdShape :
           IF IdShape[k] = "D" THEN IsDigit(s[i + k - 1]) ELSE s[i + k - 1] = "-"

IdShapes(s) == {i \in DOMAIN s : HasIdShapeAt(s, i)}

\* Neither a letter, a digit or an underscore before position i of s, nor
\* one after the 18 characters from i on.
StandsAlone(s, i) ==
    /\ (i = 1 \/ ~IsWord(s[i - 1]))
    /\ (i + Len(IdShape) > Len(s) \/ ~IsWord(s[i + Len(IdShape)]))

LoneIdShapes(s) == {i \in IdShapes(s) : StandsAlone(s, i)}

IdShapeFrom(s, i) == SubSeq(s, i, i + Len(IdShape) - 1)

\* C20 as stated: for a text that contains a substring of the form
\* DDD-DDDD-DDDDDDD-D, emirates_id of the front extractor's output is the
\* first such substring.
C20_FirstIdSubstring ==
    (Applied("front") /\ IdShapes(rec_in.arg) # {}) =>
        rec_out.value.emirates_id = IdShapeFrom(rec_in.arg, MinOf(IdShapes(rec_in.arg)))

\* C20 amended: for a text that contains a substring of that form with no
\* letter, digit or underscore right before it or right after it,
\* emirates_id is the first such substring.
C20_FirstLoneIdSubstring ==
    (Applied("front") /\ LoneIdShapes(rec_in.arg) # {}) =>
        rec_out.value.emirates_id = IdShapeFrom(rec_in.arg, MinOf(LoneIdShapes(rec_in.arg)))

\* C20 witness: for a text that begins with a number of that form after a
\* digit and goes on with another one after a space, emirates_id is the
\* second number.
C20_Witness ==
    /\ Applied("front")
    /\ rec_in.arg = <<"7">> \o IdNumber \o <<" ", "7", "8", "4", "-", "1", "9", "9", "1", "-", "7", "6", "5", "4", "3", "2", "1", "-", "2">>
    /\ rec_out.value.emirates_id = <<"7", "8", "4", "-", "1", "9", "9", "1", "-", "7", "6", "5", "4", "3", "2", "1", "-", "2">>

(***************************************************************************)
(* The OCR of an image (C21), checked under SpecPure                       *)
(***************************************************************************)
\* A call's result is accepted: status 0 with more than 10 characters.
Accepted(r) == r.code = 0 /\ Len(Strip(r.text)) > 10

\* What the English and the Arabic call give for the file.
EngOf(file) == ocr_space_file(file.eng)

AraOf(file) == ocr_space_file(file.ara)

\* The result the two calls of an image should lead to.
ImageOutcome(eng, ara) ==
    IF Accepted(eng) THEN eng ELSE IF ara.code = 0 THEN ara ELSE eng

\* C21: for a file that is not a PDF the first OCR call is the English one;
\* the Arabic call is made only if the English result is not accepted
\* (status 0 with more than 10 characters); there are at most two calls; the
\* result is the English one if accepted, else the Arabic one, and the
\* English one again only if the Arabic call failed.
C21_EnglishThenArabicOnce ==
    (Applied("ocr") /\ ~rec_in.arg.is_pdf) =>
        /\ rec_out.value.calls[1] = "eng"
        /\ Len(rec_out.value.calls) <= 2
        /\ (\E i \in DOMAIN rec_out.value.calls : rec_out.value.calls[i] = "ara")
               => ~Accepted(EngOf(rec_in.arg))
        /\ \A i \in DOMAIN rec_out.value.calls : i > 1 => rec_out.value.calls[i] = "ara"
        /\ rec_out.value.result = ImageOutcome(EngOf(rec_in.arg), AraOf(rec_in.arg))

\* C21 witness: an image whose English call gave 8 characters and whose
\* Arabic call failed has been OCR'd with two calls and has the English
\* text as its result.
C21_Witness ==
    /\ Applied("ocr")
    /\ rec_in.arg = UploadedFile(FALSE, OcrOk(<<TxtShortEng>>), Fails("http"))
    /\ rec_out.value.calls = <<"eng", "ara">>
    /\ rec_out.value.result = OcrResult(TxtShortEng, 0)

(***************************************************************************)
(* The Arabic retry of a PDF (C22), checked under SpecPure                 *)
(***************************************************************************)
\* The text of all English pages of the file.
EnglishText(file) == Strip(CombinePages(file.eng.pages))

\* The English call of the PDF succeeded with at most 10 characters.
PdfNeedsRetry(file) ==
    /\ file.is_pdf
    /\ file.eng.kind = "ok" /\ file.eng.pages # <<>>
    /\ Len(EnglishText(file)) <= 10

\* The Arabic call failed: in transport, with a status other than 200, with a
\* processing error of the provider, or without parse results.
ArabicFailed(file) ==
    \/ file.ara.kind \in {"network", "http", "errored"}
    \/ (file.ara.kind = "ok" /\ file.ara.pages = <<>>)

\* C22: for a PDF whose English call succeeded with at most 10 characters of
\* combined text, a failed Arabic retry gives status 0 with the English
\* text, never a status other than 0.
C22_ArabicFailureKeepsEnglish ==
    (Applied("ocr") /\ PdfNeedsRetry(rec_in.arg) /\ ArabicFailed(rec_in.arg)) =>
        rec_out.value.result = OcrResult(EnglishText(rec_in.arg), 0)

(***************************************************************************)
(* The front and the back text of an upload (C23), checked under SpecPure  *)
(***************************************************************************)
\* The texts whose side is one of sides, in the order of the files.
RECURSIVE TextsOfSides(_, _)
TextsOfSides(texts, sides) ==
    IF texts = <<>> THEN <<>>
    ELSE (IF detect_document_side(Head(texts)) \in sides THEN <<Head(texts)>> ELSE <<>>)
         \o TextsOfSides(Tail(texts), sides)

FrontBlob(texts) == Join(TextsOfSides(texts, {"front", "unknown"}), <<" ">>)

BackBlob(texts) == Join(TextsOfSides(texts, {"back"}), <<" ">>)

\* a, or b when a is empty.
OrOther(a, b) == IF a = <<>> THEN b ELSE a

\* C23: the front text is the space-joined texts of the files classified
\* front or unknown, the back text those of the files classified back; an
\* empty one of the two takes the other's text, in both directions, so with
\* any text at all neither extractor gets an empty input.
C23_EmptyBlobBorrowsOther ==
    Applied("group") =>
        /\ rec_out.value.front_combined = OrOther(FrontBlob(rec_in.arg), BackBlob(rec_in.arg))
        /\ rec_out.value.back_combined = OrOther(BackBlob(rec_in.arg), FrontBlob(rec_in.arg))

(***************************************************************************)
(* Chat turns and uploads of one client that waits for each response       *)
(***************************************************************************)
\* The steps the chat flow can have brought a session to.
FlowSteps ==
    {"start", "q1", "q2", "q2a", "q3", "awaiting_id_frontside", "awaiting_id_backside",
     "complete"}

InitFlow ==
    /\ \E step \in FlowSteps :
           sessions = [sid \in SessionIds |-> IF sid = "s1" THEN SessionAt(step)
                                              ELSE AwaitingId(SalMid)]
    /\ messages = Transcript("s2", AwaitingId(SalMid))
    /\ records = <<>>
    /\ Idle
    /\ rec_in = NoCall
    /\ rec_out = NoResult
    /\ NoAccounts

FlowRequests == ChatRequests \cup Requests

NextFlow ==
    \E w \in Workers : (\E r \in FlowRequests : ReceiveAlone(w, r)) \/ ChatStep(w) \/ Step(w)

SpecFlow == InitFlow /\ [][NextFlow]_vars

(***************************************************************************)
(* The order of the steps (C24), checked under SpecFlow                    *)
(***************************************************************************)
\* The order start, q1, q2 (then q2a), q3, awaiting_id_frontside,
\* awaiting_id_backside, complete: to comes right after from.
NextInOrder(from, to) ==
    <<from, to>> \in {<<"start", "q1">>, <<"q1", "q2">>, <<"q2", "q2a">>, <<"q2", "q3">>,
                      <<"q2a", "q3">>, <<"q3", "awaiting_id_frontside">>,
                      <<"awaiting_id_frontside", "awaiting_id_backside">>,
                      <<"awaiting_id_backside", "complete">>}

\* The step that is taken is one of the deterministic machine (the reply
\* service has failed) or of an upload.
WithoutReplyService ==
    \E w \in Workers :
        \/ pc[w] = "reply" /\ req[w].ai.kind # "object"
        \/ pc[w] \in {"sync", "recommend"}

\* C24: with the reply service unavailable, a session that is at one of the
\* steps of the order changes its step, by a chat turn or by an upload,
\* only to the step that comes next in the order start, q1, q2 (q2a), q3,
\* awaiting_id_frontside, awaiting_id_backside, complete: no step is
\* skipped, and awaiting_id_backside comes between the front side and
\* complete.
C24_StepsInOrder ==
    [][\A sid \in DOMAIN sessions :
          (/\ WithoutReplyService
           /\ sessions[sid].step \in FlowSteps
           /\ sessions'[sid].step # sessions[sid].step)
              => NextInOrder(sessions[sid].step, sessions'[sid].step)]_vars

(***************************************************************************)
(* The values of step (C27), checked under SpecFlow                        *)
(***************************************************************************)
\* The step values the system prompt allows.
AllowedSteps ==
    {"start", "q1", "q2", "q2a", "q3", "salary_q", "sponsor_q", "awaiting_id_frontside",
     "awaiting_id_backside", "complete"}

\* C27: after any sequence of chat turns, answered by the reply service or
\* by the deterministic machine, and of uploads, the step of every session
\* is one of start, q1, q2, q2a, q3, salary_q, sponsor_q,
\* awaiting_id_frontside, awaiting_id_backside and complete.
C27_StepIsAllowed ==
    \A sid \in DOMAIN sessions : sessions[sid].step \in AllowedSteps

(***************************************************************************)
(* Completion (C28), checked under SpecFlow                                *)
(***************************************************************************)
\* C28: a session has is_completed true only if its step is "complete".
C28_CompletedOnlyAtComplete ==
    \A sid \in DOMAIN sessions : sessions[sid].is_completed => sessions[sid].step = "complete"

(***************************************************************************)
(* Chat turns and uploads of several clients: the statements of a chat     *)
(* turn and of an upload for the same session interleave                   *)
(***************************************************************************)
OverlapRequests ==
    {ChatRequest("s1", t, "u1") : t \in {U_yes, W_d}}
    \cup {ChatRequest("s3", U_hi, "None")}
    \cup {UploadRequest("s1", b) : b \in {<<F_frontA>>, <<F_backDubai>>, <<F_frontA, F_backDubai>>}}
    \cup {UpdateRequest(1, <<" ", "N", "a", "t", "i", "o", "n", "a", "l", "i", "t", "y">>, <<"O", "m", "a", "n", " ">>)}

InitOverlap ==
    /\ \E step \in {"q3", "awaiting_id_frontside"} :
           sessions = [sid \in SessionIds |-> IF sid = "s1" THEN SessionAt(step)
                                              ELSE AwaitingId(SalMid)]
    /\ messages = Transcript("s2", AwaitingId(SalMid))
    /\ records = <<>>
    /\ Idle
    /\ rec_in = NoCall
    /\ rec_out = NoResult
    /\ NoAccounts

NextOverlap ==
    \E w \in Workers : (\E r \in OverlapRequests : Receive(w, r)) \/ ChatStep(w) \/ Step(w)

SpecOverlap == InitOverlap /\ [][NextOverlap]_vars

(***************************************************************************)
(* Overlapping requests for one session (C25), checked under SpecOverlap   *)
(***************************************************************************)
\* Worker w executes session.save() without update_fields: the save of the
\* step change of an upload, or the save of a chat turn.
FullSave(w) ==
    \/ /\ pc[w] = "recommend" /\ pc'[w] = "respond"
       /\ req[w].x.has_back_side
       /\ req[w].session.step \in {"awaiting_id_frontside", "awaiting_id_backside"}
    \/ pc[w] = "reply" /\ pc'[w] = "log_user"

\* The request of w has executed its full save.
PastFullSave(w) ==
    \/ pc[w] = "respond" /\ req[w].x.has_back_side /\ req[w].session.step = "complete"
    \/ pc[w] \in {"log_user", "log_bot"}

\* The upload of v has synced an id number into the session row, and the
\* row has lost it to the full save of w, whose instance was read before
\* the sync.
Overwritten(v, w) ==
    /\ v # w
    /\ pc[v] \in {"recommend", "respond"}
    /\ PastFullSave(w)
    /\ req[w].session_id = req[v].session_id
    /\ Truthy(req[v].session.emirates_id_number)
    /\ req[v].session.emirates_id_uploaded
    /\ ~Truthy(req[w].session.emirates_id_number)
    /\ ~Truthy(sessions[req[v].session_id].emirates_id_number)

\* C25: no lock and no version guards a session row: a full save of a
\* request makes every column of the row the value of the request's
\* in-memory instance, whatever another request has written to the row
\* since the instance was read.  (C25_Witness and C25_WitnessUploads are
\* the interleavings in which a written field is lost that way.)
C25_SaveWritesStaleInstance ==
    [][\A w \in Workers :
          FullSave(w) => sessions'[req[w].session_id] = req'[w].session]_vars

\* C25 witness: an upload has synced the id number and the uploaded flag,
\* and an overlapping chat turn for the same session has saved its instance
\* over them: the row has no id number and is not marked uploaded.
C25_Witness ==
    \E v, w \in Workers :
        /\ Overwritten(v, w)
        /\ req[w].op = "chat"
        /\ ~req[w].session.emirates_id_uploaded
        /\ ~sessions[req[v].session_id].emirates_id_uploaded

\* The same between two uploads: the full save of the second one's step
\* change has removed the id number the first one synced.
C25_WitnessUploads ==
    \E v, w \in Workers : Overwritten(v, w) /\ req[w].op = "upload"

(***************************************************************************)
(* The values of the two extractors (C26), checked under SpecPure          *)
(***************************************************************************)
\* v has no white space at either end and does not end with a colon.
Trimmed(v) ==
    v = <<>> \/ (~IsSpace(v[1]) /\ ~IsSpace(v[Len(v)]) /\ v[Len(v)] # ":")

\* C26: every value in the output of the front extractor and of the back
\* extractor has no leading and no trailing white space and does not end
\* with ':'.
C26_ValuesTrimmed ==
    (Applied("front") \/ Applied("back")) =>
        \A k \in DOMAIN rec_out.value : rec_out.value[k] = None \/ Trimmed(rec_out.value[k])

(***************************************************************************)
(* models.py OTP, views.py send_otp and verify_otp                         *)
(***************************************************************************)
\* Two of the codes random.randint(100000, 999999) gives.
Codes == {"111111", "222222"}

\* timedelta(minutes=10)
OtpMinutes == 10

\* The clock advances in steps of TickMinutes up to MaxNow.
TickMinutes == 5

MaxNow == 15

\* A row of OTP; a deleted row keeps its place, so that the index is the
\* primary key the database never gives twice.
OTP(user, otp_code, expires_at) ==
    [user |-> user, otp_code |-> otp_code, expires_at |-> expires_at, is_used |-> FALSE,
     deleted |-> FALSE]

\* OTP.is_valid
is_valid(otp) == ~otp.is_used /\ now < otp.expires_at

\* OTP.objects.filter(user=user)
OtpsOf(user) == {i \in DOMAIN otps : ~otps[i].deleted /\ otps[i].user = user}

\* OTP.objects.filter(user=user, otp_code=otp_code, is_used=False)
Unused(user, otp_code) ==
    {i \in OtpsOf(user) : otps[i].otp_code = otp_code /\ ~otps[i].is_used}

\* .first(): the row with the lowest primary key.
First(ids) == CHOOSE i \in ids : \A j \in ids : i <= j

SendOtpRequest(email) == [op |-> "send_otp", email |-> email]

VerifyOtpRequest(email, otp_code) == [op |-> "verify_otp", email |-> email, otp_code |-> otp_code]

\* The POSTs to /auth/send-otp/ and /auth/verify-otp/ the model sends; ""
\* is a missing value, "b@x.io" an email no send-otp is sent for.
OtpRequests ==
    {SendOtpRequest(e) : e \in {"a@x.io", ""}}
    \cup {VerifyOtpRequest(e, c) : e \in {"a@x.io", "b@x.io"}, c \in Codes \cup {""}}

\* send_otp up to User.objects.get_or_create.
send_otp(w) ==
    /\ pc[w] = "send_otp"
    /\ IF req[w].email = ""
       THEN Respond(w, ErrorResponse(400, "Email is required")) /\ UNCHANGED users
       ELSE /\ users' = users \cup {req[w].email}
            /\ req' = [req EXCEPT ![w] = [op |-> "send_otp", email |-> req[w].email,
                                          created |-> req[w].email \notin users]]
            /\ pc' = [pc EXCEPT ![w] = "otp_delete"]
            /\ UNCHANGED resp
    /\ UNCHANGED <<sessions, records, nReq, rec_in, rec_out, messages, otps, now>>

\* generate_otp: cls.objects.filter(user=user).delete()
OtpDelete(w) ==
    /\ pc[w] = "otp_delete"
    /\ otps' = [i \in DOMAIN otps |->
                   IF otps[i].user = req[w].email THEN [otps[i] EXCEPT !.deleted = TRUE]
                   ELSE otps[i]]
    /\ pc' = [pc EXCEPT ![w] = "otp_create"]
    /\ UNCHANGED <<sessions, records, req, resp, nReq, rec_in, rec_out, messages, users, now>>

\* generate_otp: cls.objects.create(...) with a random code.
OtpCreate(w) ==
    /\ pc[w] = "otp_create"
    /\ \E otp_code \in Codes :
           otps' = Append(otps, OTP(req[w].email, otp_code, now + OtpMinutes))
    /\ pc' = [pc EXCEPT ![w] = "send_mail"]
    /\ UNCHANGED <<sessions, records, req, resp, nReq, rec_in, rec_out, messages, users, now>>

\* send_mail(..., fail_silently=False) and the response; a failure of the
\* mail server is the 500 of "except Exception".
SendMail(w) ==
    /\ pc[w] = "send_mail"
    /\ \E sent \in BOOLEAN :
           IF sent
           THEN Respond(w, [status |-> 200, message |-> "OTP sent successfully",
                            is_new_user |-> req[w].created])
           ELSE Respond(w, ErrorResponse(500, "SMTPException"))
    /\ UNCHANGED <<sessions, records, nReq, rec_in, rec_out, messages, users, otps, now>>

\* verify_otp up to "if not otp or not otp.is_valid()".
verify_otp(w) ==
    /\ pc[w] = "verify_otp"
    /\ LET email    == req[w].email
           otp_code == req[w].otp_code
       IN  IF email = "" \/ otp_code = ""
           THEN Respond(w, ErrorResponse(400, "Email and OTP code are required"))
           ELSE IF email \notin users
           THEN Respond(w, ErrorResponse(404, "User not found"))
           ELSE IF Unused(email, otp_code) = {} \/ ~is_valid(otps[First(Unused(email, otp_code))])
           THEN Respond(w, ErrorResponse(400, "Invalid or expired OTP"))
           ELSE /\ req' = [req EXCEPT ![w] =
                              [op |-> "verify_otp", email |-> email, otp_code |-> otp_code,
                               id |-> First(Unused(email, otp_code)),
                               otp |-> otps[First(Unused(email, otp_code))]]]
                /\ pc' = [pc EXCEPT ![w] = "otp_use"]
                /\ UNCHANGED resp
    /\ UNCHANGED <<sessions, records, nReq, rec_in, rec_out, messages, users, otps, now>>

\* otp.is_used = True; otp.save(): an UPDATE of every column by primary
\* key, and an INSERT of the instance when the row is gone.
OtpUse(w) ==
    /\ pc[w] = "otp_use"
    /\ otps' = [otps EXCEPT ![req[w].id] = [req[w].otp EXCEPT !.is_used = TRUE]]
    /\ pc' = [pc EXCEPT ![w] = "verified"]
    /\ UNCHANGED <<sessions, records, req, resp, nReq, rec_in, rec_out, messages, users, now>>

\* user.save(), login, the token and the response.
OtpVerified(w) ==
    /\ pc[w] = "verified"
    /\ Respond(w, [status |-> 200, message |-> "OTP verified successfully",
                   user |-> req[w].email])
    /\ UNCHANGED <<sessions, records, nReq, rec_in, rec_out, messages, users, otps, now>>

\* Time passes.
Tick ==
    /\ now < MaxNow
    /\ now' = now + TickMinutes
    /\ UNCHANGED <<sessions, records, pc, req, resp, nReq, rec_in, rec_out, messages, users, otps>>

OtpStep(w) ==
    \/ send_otp(w)
    \/ OtpDelete(w)
    \/ OtpCreate(w)
    \/ SendMail(w)
    \/ verify_otp(w)
    \/ OtpUse(w)
    \/ OtpVerified(w)

InitOtp ==
    /\ sessions = [sid \in SessionIds |-> ChatSession("None")]
    /\ records = <<>>
    /\ messages = <<>>
    /\ Idle
    /\ rec_in = NoCall
    /\ rec_out = NoResult
    /\ NoAccounts

NextOtp == Tick \/ \E w \in Workers : (\E r \in OtpRequests : Receive(w, r)) \/ OtpStep(w)

\* The requests for one-time passwords of any number of clients.
SpecOtp == InitOtp /\ [][NextOtp]_vars

NextOtpSeq == Tick \/ \E w \in Workers : (\E r \in OtpRequests : ReceiveAlone(w, r)) \/ OtpStep(w)

\* The same with one request at a time.
SpecOtpSeq == InitOtp /\ [][NextOtpSeq]_vars

(***************************************************************************)
(* One-time passwords (C29), checked under SpecOtp                         *)
(***************************************************************************)
\* verify_otp of w accepts the code.
Accepts(w) == pc[w] = "verify_otp" /\ pc'[w] = "otp_use"

\* Row i is the OTP issued last to its user, deleted ones counted.
IssuedLast(i) == \A j \in DOMAIN otps : otps[j].user = otps[i].user => j <= i

\* The OTP that passes is the one issued last to the user, unused and
\* unexpired.
OnlyLatestPasses ==
    \A w \in Workers :
        Accepts(w) => /\ IssuedLast(req'[w].id)
                      /\ ~otps[req'[w].id].is_used
                      /\ now < otps[req'[w].id].expires_at

\* Issuing an OTP leaves the user no earlier one.
IssuingRemovesEarlier ==
    \A w \in Workers :
        (pc[w] = "otp_create" /\ pc'[w] = "send_mail") =>
            \A j \in DOMAIN otps : otps[j].user = req[w].email => otps'[j].deleted

\* A code that has passed for a user does not pass again.
PassesOnce ==
    \A w \in Workers :
        Accepts(w) => ~\E j \in DOMAIN otps : /\ otps[j].user = req[w].email
                                              /\ otps[j].otp_code = req[w].otp_code
                                              /\ otps[j].is_used

\* C29: only the most recently issued, unused and unexpired OTP of a user
\* passes verify_otp; issuing a new OTP removes every earlier OTP of the
\* user; and after a successful verify every later verify with the same
\* code fails.
C29_OnlyLatestOtpOnce ==
    [][OnlyLatestPasses /\ IssuingRemovesEarlier /\ PassesOnce]_vars

(***************************************************************************)
(* The middleware (C30), checked under SpecPure                            *)
(***************************************************************************)
\* A POST to insurance-chat whose user_text is empty or "yes" in any case.
FirstTurnOfChat(request) ==
    /\ StartsWith(request.path, <<"/", "a", "p", "i", "/", "i", "n", "s", "u", "r", "a", "n", "c", "e", "-", "c", "h", "a", "t", "/">>)
    /\ request.method = "POST"
    /\ request.body.kind = "object"
    /\ request.body.user_text # None
    /\ Lower(request.body.user_text) \in {<<>>, <<"y", "e", "s">>}

\* C30: an unauthenticated POST to insurance-chat whose user_text is empty
\* or "yes" in any case is let through by the middleware, and every other
\* unauthenticated request outside /api/auth/, /static/ and / is answered
\* 401 with login_required.
C30_FirstTurnPassesElse401 ==
    (Applied("middleware") /\ ~rec_in.arg.authenticated /\ ~Open(rec_in.arg.path)) =>
        IF FirstTurnOfChat(rec_in.arg)
        THEN rec_out.value = ReturnsNone
        ELSE rec_out.value.returns = "JsonResponse" /\ rec_out.value.status = 401
             /\ rec_out.value.login_required

====
